---- MODULE Spec2Model ----
(***************************************************************************)
(* Storage and consistency layer of the Data API: the conditional-update   *)
(* requests that DataAPIStorageHandler builds (update expression handler,  *)
(* audit decoration), the backing store's evaluation of those requests,    *)
(* and the item operations update / delete / restore / item master.        *)
(*                                                                         *)
(* Text is modelled as a sequence of chunks.  A chunk is an atomic piece   *)
(* of text; the three clause keywords, the blank and the comma are chunks  *)
(* of their own, so that splitting, stripping and joining act on text as   *)
(* the code does.  An attribute name is a sequence of chunks as well.      *)
(***************************************************************************)
EXTENDS Naturals, Integers, Sequences, FiniteSets, TLC

----------------------------------------------------------------------------
(* chalicelib/parameters.py: names used by the storage layer                *)

SET == "SET"
REMOVE == "REMOVE"
ADD == "ADD"

ITEM_VERSION == <<"ItemVersion">>
ITEM_MASTER_ID == <<"ItemMasterID">>
DELETED == <<"deleted">>
TOMBSTONED == <<"Tombstoned">>
LAST_UPDATE_DATE == <<"LastUpdateDate">>
LAST_UPDATED_BY == <<"LastUpdatedBy">>
LAST_UPDATE_ACTION == <<"LastUpdateAction">>
APP == <<"app">>

DELETE_MODE_SOFT == "soft"
DELETE_MODE_TOMBSTONE == "tombstone"

ACTION_UPDATE == "update"
ACTION_DELETE == "delete"
ACTION_RESTORE == "restore"
ACTION_REMOVE_ATTRIBUTE == "remove_attribute"

----------------------------------------------------------------------------
(* text helpers: str.strip, str.join, str.upper, re.split                   *)

SP == " "
COMMA == ","

Keywords == {SET, REMOVE, ADD}

RECURSIVE LStrip(_)
LStrip(s) == IF s # <<>> /\ Head(s) = SP THEN LStrip(Tail(s)) ELSE s

RECURSIVE RStrip(_)
RStrip(s) == IF s # <<>> /\ s[Len(s)] = SP THEN RStrip(SubSeq(s, 1, Len(s) - 1)) ELSE s

strip(s) == RStrip(LStrip(s))

RECURSIVE join(_, _)
join(sep, parts) ==
    IF parts = <<>> THEN <<>>
    ELSE IF Len(parts) = 1 THEN parts[1]
    ELSE parts[1] \o sep \o join(sep, Tail(parts))

upperChunk(c) ==
    CASE c = "set" -> SET
      [] c = "remove" -> REMOVE
      [] c = "add" -> ADD
      [] OTHER -> c

upper(s) == [i \in 1..Len(s) |-> upperChunk(s[i])]

\* re.split('(SET|REMOVE|ADD)', s): the text between the keywords and, as
\* the group is capturing, the keywords themselves
RECURSIVE SplitFrom(_, _, _)
SplitFrom(s, i, cur) ==
    IF i > Len(s) THEN <<cur>>
    ELSE IF s[i] \in Keywords THEN <<cur, <<s[i]>>>> \o SplitFrom(s, i + 1, <<>>)
    ELSE SplitFrom(s, i + 1, Append(cur, s[i]))

re_split(s) == SplitFrom(s, 1, <<>>)

----------------------------------------------------------------------------
(* DynamoUpdateExpressionHandler: _tokens is a dict from clause kind to the *)
(* text of that kind; NoKind is the key None                                *)

NoKind == "None"

NoTokens == [k \in {} |-> <<>>]

RECURSIVE ScanTokens(_, _, _, _)
ScanTokens(pieces, i, next_token_name, tokens) ==
    IF i > Len(pieces) THEN tokens
    ELSE LET t == pieces[i] IN
         IF upper(t) = <<SET>> THEN ScanTokens(pieces, i + 1, SET, tokens)
         ELSE IF upper(t) = <<REMOVE>> THEN ScanTokens(pieces, i + 1, REMOVE, tokens)
         ELSE IF upper(t) = <<ADD>> THEN ScanTokens(pieces, i + 1, ADD, tokens)
         ELSE IF t # <<>>
              THEN ScanTokens(pieces, i + 1, next_token_name,
                              (next_token_name :> strip(t)) @@ tokens)
              ELSE ScanTokens(pieces, i + 1, next_token_name, tokens)

\* __init__(expression) for an expression that is not None
DynamoUpdateExpressionHandler(expression) ==
    ScanTokens(re_split(expression), 1, NoKind, NoTokens)

\* add_expression_item that keeps only the last clause of a kind
add_expression_item_last(tokens, type, expression) == (type :> expression) @@ tokens

\* add_expression_item(type, expression)
add_expression_item(tokens, type, expression) ==
    IF type \notin DOMAIN tokens
    THEN (type :> expression) @@ tokens
    ELSE (type :> (tokens[type] \o <<COMMA, SP>> \o expression)) @@ tokens

RenderKind(tokens, x) ==
    IF x \in DOMAIN tokens /\ tokens[x] # <<>>
    THEN << <<x, SP>> \o tokens[x] >>
    ELSE <<>>

get_expression(tokens) ==
    join(<<SP>>, RenderKind(tokens, SET) \o RenderKind(tokens, REMOVE) \o RenderKind(tokens, ADD))

----------------------------------------------------------------------------
(* The backing store: one table's update_item(Key, UpdateExpression,        *)
(* ConditionExpression, ExpressionAttributeNames, ExpressionAttributeValues)*)
(* A stored item is a function from attribute names to values; the item of  *)
(* a key that has no record is the empty function.                          *)

NoItem == [k \in {} |-> 0]

Exists(item) == DOMAIN item # {}

Flush(cur) == IF cur = <<>> THEN <<>> ELSE <<cur>>

\* the words of an expression: blanks separate, ',' and '=' stand alone
RECURSIVE WordsFrom(_, _, _)
WordsFrom(s, i, cur) ==
    IF i > Len(s) THEN Flush(cur)
    ELSE IF s[i] = SP THEN Flush(cur) \o WordsFrom(s, i + 1, <<>>)
    ELSE IF s[i] \in {COMMA, "="} THEN Flush(cur) \o << <<s[i]>> >> \o WordsFrom(s, i + 1, <<>>)
    ELSE WordsFrom(s, i + 1, Append(cur, s[i]))

Words(s) == WordsFrom(s, 1, <<>>)

IsKeyword(w) == Len(w) = 1 /\ upperChunk(w[1]) \in Keywords

\* the clauses of an update expression: <<kind, words of its body>>
RECURSIVE ClausesFrom(_, _, _, _)
ClausesFrom(ws, i, kind, body) ==
    IF i > Len(ws) THEN << <<kind, body>> >>
    ELSE IF IsKeyword(ws[i])
         THEN << <<kind, body>> >> \o ClausesFrom(ws, i + 1, upperChunk(ws[i][1]), <<>>)
         ELSE ClausesFrom(ws, i + 1, kind, Append(body, ws[i]))

Clauses(ue) == ClausesFrom(Words(ue), 1, NoKind, <<>>)

\* the comma-separated actions of a clause body
RECURSIVE ActionsFrom(_, _, _)
ActionsFrom(body, i, cur) ==
    IF i > Len(body) THEN <<cur>>
    ELSE IF body[i] = <<COMMA>> THEN <<cur>> \o ActionsFrom(body, i + 1, <<>>)
    ELSE ActionsFrom(body, i + 1, Append(cur, body[i]))

Actions(body) == ActionsFrom(body, 1, <<>>)

IsNameRef(w) == w # <<>> /\ w[1] = "#"
IsValueRef(w) == w # <<>> /\ w[1] = ":"

PathOk(w, ean) ==
    /\ w # <<>>
    /\ ~IsValueRef(w)
    /\ w \notin {<<COMMA>>, <<"=">>}
    /\ IsNameRef(w) => w \in DOMAIN ean

Path(w, ean) == IF IsNameRef(w) THEN ean[w] ELSE w

ValueOk(w, eav) == IsValueRef(w) /\ w \in DOMAIN eav

ActionOk(kind, a, ean, eav) ==
    CASE kind = SET -> Len(a) = 3 /\ PathOk(a[1], ean) /\ a[2] = <<"=">> /\ ValueOk(a[3], eav)
      [] kind = REMOVE -> Len(a) = 1 /\ PathOk(a[1], ean)
      [] kind = ADD -> Len(a) = 2 /\ PathOk(a[1], ean) /\ ValueOk(a[2], eav)
      [] OTHER -> FALSE

\* every action of the expression, as <<kind, path, value>> (value 0 for REMOVE)
ClauseActions(c, ean, eav) ==
    LET as == Actions(c[2])
    IN  [i \in 1..Len(as) |->
            <<c[1], Path(as[i][1], ean),
              IF c[1] = SET THEN eav[as[i][3]] ELSE IF c[1] = ADD THEN eav[as[i][2]] ELSE 0>>]

RECURSIVE Flatten(_)
Flatten(ss) == IF ss = <<>> THEN <<>> ELSE Head(ss) \o Flatten(Tail(ss))

\* a well-formed update expression: nothing before the first keyword, each
\* kind at most once, every action of the shape its kind requires
SyntaxOk(ue, ean, eav) ==
    LET cs == Clauses(ue)
    IN  /\ cs[1][2] = <<>>
        /\ Len(cs) > 1
        /\ \A i, j \in 2..Len(cs) : i # j => cs[i][1] # cs[j][1]
        /\ \A i \in 2..Len(cs) :
              \A k \in 1..Len(Actions(cs[i][2])) :
                  ActionOk(cs[i][1], Actions(cs[i][2])[k], ean, eav)

UpdateActions(ue, ean, eav) ==
    LET cs == Clauses(ue)
    IN  Flatten([i \in 1..(Len(cs) - 1) |-> ClauseActions(cs[i + 1], ean, eav)])

\* two actions on one attribute: "Two document paths overlap with each other"
NoOverlap(acts) == \A i, j \in 1..Len(acts) : i # j => acts[i][2] # acts[j][2]

\* condition expressions, as trees over <<"not_exists", p>>, <<"eq", p, v>>,
\* <<"ne", p, v>>, <<"and", c, d>>, <<"or", c, d>>, <<"true">>; in a condition given as text
\* p and v are placeholders, in a condition built with Attr() they are the
\* attribute name and the value themselves
RECURSIVE CondRefs(_)
CondRefs(c) ==
    CASE c[1] = "not_exists" -> {c[2]}
      [] c[1] \in {"eq", "ne"} -> {c[2], c[3]}
      [] c[1] \in {"and", "or"} -> CondRefs(c[2]) \cup CondRefs(c[3])
      [] OTHER -> {}

RECURSIVE CondHolds(_, _, _, _, _)
CondHolds(c, textual, item, ean, eav) ==
    LET name(p) == IF textual THEN ean[p] ELSE p
        val(v) == IF textual THEN eav[v] ELSE v
    IN  CASE c[1] = "not_exists" -> name(c[2]) \notin DOMAIN item
          [] c[1] = "eq" -> name(c[2]) \in DOMAIN item /\ item[name(c[2])] = val(c[3])
          [] c[1] = "ne" -> name(c[2]) \notin DOMAIN item \/ item[name(c[2])] # val(c[3])
          [] c[1] = "and" -> CondHolds(c[2], textual, item, ean, eav)
                             /\ CondHolds(c[3], textual, item, ean, eav)
          [] c[1] = "or" -> CondHolds(c[2], textual, item, ean, eav)
                            \/ CondHolds(c[3], textual, item, ean, eav)
          [] OTHER -> TRUE

NoCondition == [textual |-> FALSE, tree |-> <<"true">>]

Range(ws) == {ws[i] : i \in 1..Len(ws)}

\* every placeholder that is declared is used, and every one used is declared
RefsOk(ue, ce, ean, eav) ==
    LET used == Range(Words(ue)) \cup (IF ce.textual THEN CondRefs(ce.tree) ELSE {})
    IN  /\ DOMAIN ean \subseteq used
        /\ DOMAIN eav \subseteq used
        /\ ce.textual => \A r \in CondRefs(ce.tree) : r \in DOMAIN ean \cup DOMAIN eav

\* the request as the store reads it: whether it is valid, the actions of
\* its update expression, and its condition
ParseUpdate(args) ==
    IF /\ SyntaxOk(args.ue, args.ean, args.eav)
       /\ RefsOk(args.ue, args.ce, args.ean, args.eav)
       /\ NoOverlap(UpdateActions(args.ue, args.ean, args.eav))
    THEN [valid |-> TRUE, acts |-> UpdateActions(args.ue, args.ean, args.eav),
          ce |-> args.ce, ean |-> args.ean, eav |-> args.eav]
    ELSE [valid |-> FALSE, acts |-> <<>>, ce |-> args.ce, ean |-> args.ean, eav |-> args.eav]

RECURSIVE ApplyActions(_, _, _)
ApplyActions(item, acts, i) ==
    IF i > Len(acts) THEN item
    ELSE LET a == acts[i]
             n == a[2]
         IN  CASE a[1] = SET -> ApplyActions((n :> a[3]) @@ item, acts, i + 1)
               [] a[1] = REMOVE ->
                    ApplyActions([k \in DOMAIN item \ {n} |-> item[k]], acts, i + 1)
               [] OTHER ->
                    ApplyActions((n :> ((IF n \in DOMAIN item THEN item[n] ELSE 0) + a[3])) @@ item,
                                 acts, i + 1)

\* Table.update_item for a request the store has read: the outcome and the
\* item stored afterwards.  An invalid request is rejected before its
\* condition is looked at; an update of a key with no record creates it.
StoreApply(item, key, pk, request) ==
    IF ~request.valid
    THEN [status |-> "ValidationException", item |-> item]
    ELSE IF ~CondHolds(request.ce.tree, request.ce.textual, item, request.ean, request.eav)
    THEN [status |-> "ConditionalCheckFailedException", item |-> item]
    ELSE [status |-> "ok", item |-> ApplyActions((pk :> key) @@ item, request.acts, 1)]

----------------------------------------------------------------------------
(* Bounds of the model                                                      *)

MaxId == 2
MaxVal == 1
MaxWrites == 3
MaxDate == 1
MaxCaller == 1
MaxLimit == 2
MaxPageSize == 2

\* the text of the i-th primary key
Ids == {<<ToString(i)>> : i \in 1..MaxId}
Vals == 1..MaxVal
Dates == 1..MaxDate
Callers == 1..MaxCaller

\* attribute names a caller writes in a Resource or Metadata document
COLOR == <<"color">>
TYPE == <<"type">>
NOTE == <<"note">>
ResourceNames == {COLOR, TYPE}
MetadataNames == {NOTE}

\* the primary key attribute of the namespace
pk_name == <<"id">>

\* an optional argument is the empty sequence when it is not supplied
None == <<>>
Some(v) == <<v>>

\* the iteration order of a dict: the attributes of d one after another
RECURSIVE KeysOf(_)
KeysOf(S) ==
    IF S = {} THEN <<>>
    ELSE LET k == CHOOSE x \in S : TRUE IN <<k>> \o KeysOf(S \ {k})

items(d) == KeysOf(DOMAIN d)

Without(d, names) == [k \in DOMAIN d \ names |-> d[k]]

----------------------------------------------------------------------------
(* The namespace configuration and the requests of the callers              *)

Configs ==
    [strict_occv : BOOLEAN,
     allow_non_itemmaster_writes : BOOLEAN,
     delete_mode : {DELETE_MODE_SOFT, DELETE_MODE_TOMBSTONE},
     allow_runtime_delete_mode_change : BOOLEAN,
     caller : Callers]

Docs(names) == UNION {[S -> Vals] : S \in SUBSET names \ {{}}}

ResourceDocs == Docs(ResourceNames) \cup {(ITEM_MASTER_ID :> m) @@ (COLOR :> 1) : m \in Ids}
MetadataDocs == Docs(MetadataNames)
ConstraintDocs == [{COLOR} -> Vals]

Opt(S) == {None} \cup {Some(x) : x \in S}

Versions == 1..MaxWrites

UpdateRequests ==
    [Resource : Opt(ResourceDocs), Metadata : Opt(MetadataDocs),
     ItemVersion : Opt(Versions), Constraints : Opt(ConstraintDocs)]

ResourceAttributeLists ==
    {<<>>, <<COLOR>>, <<TYPE>>, <<COLOR, TYPE>>, <<ITEM_MASTER_ID>>, <<ITEM_VERSION>>}
MetadataAttributeLists == {<<>>, <<NOTE>>}

DeleteRequests ==
    [Resource : Opt(ResourceAttributeLists), Metadata : Opt(MetadataAttributeLists),
     DeleteMode : Opt({DELETE_MODE_SOFT, DELETE_MODE_TOMBSTONE})]

\* a link request names one key, or two different keys separated by a comma
MasterUpdateRequests ==
    [pk : {join(<<COMMA>>, targets) :
              targets \in {<<id>> : id \in Ids} \cup {t \in Ids \X Ids : t[1] # t[2]}},
     ItemMasterID : Ids]

MasterDeleteRequests == [pk : Ids, ItemMasterID : Opt(Ids)]

\* the attribute names a stored Resource item can carry
StoredNames ==
    ResourceNames \cup {pk_name, ITEM_VERSION, ITEM_MASTER_ID, DELETED, TOMBSTONED,
                        LAST_UPDATE_DATE, LAST_UPDATED_BY, LAST_UPDATE_ACTION}

----------------------------------------------------------------------------
(* DynamoTableUtils.decorate_update_request                                 *)

LUD_A == <<"#", "lud">>
LUD_V == <<":", "lud">>
LUB_A == <<"#", "lub">>
LUB_V == <<":", "lub">>
LUA_A == <<"#", "lua">>
LUA_V == <<":", "lua">>
INCR_V == <<":", "incr">>

NameRef(k) == <<"#">> \o k
ValueRef(k) == <<":">> \o k

Assign(a, v) == a \o <<SP, "=", SP>> \o v

\* the decoration with the version increment left out
decorate_without_increment(args, caller_identity, update_action, auto_increment, date_now) ==
    LET current_expression == DynamoUpdateExpressionHandler(args.ue)
        last_updates == join(<<COMMA, SP>>,
                             <<Assign(LUD_A, LUD_V), Assign(LUB_A, LUB_V), Assign(LUA_A, LUA_V)>>)
        with_updates == add_expression_item(current_expression, SET, last_updates)
    IN  [ue |-> get_expression(with_updates),
         ce |-> args.ce,
         ean |-> (LUD_A :> LAST_UPDATE_DATE) @@ (LUB_A :> LAST_UPDATED_BY)
                 @@ (LUA_A :> LAST_UPDATE_ACTION) @@ args.ean,
         eav |-> (LUD_V :> date_now) @@ (LUB_V :> caller_identity)
                 @@ (LUA_V :> update_action) @@ args.eav]

decorate_update_request(args, caller_identity, update_action, auto_increment, date_now) ==
    LET current_expression == DynamoUpdateExpressionHandler(args.ue)
        last_updates == join(<<COMMA, SP>>,
                             <<Assign(LUD_A, LUD_V), Assign(LUB_A, LUB_V), Assign(LUA_A, LUA_V)>>)
        with_updates == add_expression_item(current_expression, SET, last_updates)
        increment == NameRef(ITEM_VERSION) \o <<SP>> \o INCR_V
        with_increment == IF auto_increment
                          THEN add_expression_item(with_updates, ADD, increment)
                          ELSE with_updates
        ean == (LUD_A :> LAST_UPDATE_DATE) @@ (LUB_A :> LAST_UPDATED_BY)
               @@ (LUA_A :> LAST_UPDATE_ACTION) @@ args.ean
        eav == (LUD_V :> date_now) @@ (LUB_V :> caller_identity)
               @@ (LUA_V :> update_action) @@ args.eav
    IN  [ue |-> get_expression(with_increment),
         ce |-> args.ce,
         ean |-> IF auto_increment THEN (NameRef(ITEM_VERSION) :> ITEM_VERSION) @@ ean ELSE ean,
         eav |-> IF auto_increment THEN (INCR_V :> 1) @@ eav ELSE eav]

----------------------------------------------------------------------------
(* DataAPIStorageHandler: reads                                             *)

\* _fetch_item: the stored item, unless it is deleted and force is not set
\* (the method then falls off its end and returns None, as for a missing item)
_fetch_item(item, force) ==
    IF Exists(item)
    THEN IF DELETED \notin DOMAIN item \/ item[DELETED] = 0 \/ force THEN item ELSE NoItem
    ELSE NoItem

\* check(id) and get(id) answer, rather than raise ResourceNotFoundException
Visible(item) == Exists(_fetch_item(item, FALSE))

----------------------------------------------------------------------------
(* DataAPIStorageHandler: _simple_update, restore, delete                   *)

\* the Python test  sub in s
Contains(s, sub) ==
    \E i \in 1..Len(s) : i + Len(sub) - 1 <= Len(s) /\ SubSeq(s, i, i + Len(sub) - 1) = sub

DEL_A == <<"#", "del">>
DEL_V == <<":", "del">>
TRUE_V == <<":", "true">>

NoMap == [k \in {} |-> 0]

\* the function f as a table of its values
Tabulate(f) == f @@ NoMap

\* the request _simple_update sends to the store
SimpleUpdateArgs(update_expression, caller_identity, update_action, date_now) ==
    LET is_delete == Contains(update_expression, DEL_A)
        ean == IF is_delete THEN (DEL_A :> DELETED) ELSE NoMap
        eav0 == IF is_delete THEN (DEL_V :> 1) ELSE NoMap
        eav == IF Contains(update_expression, TRUE_V) THEN (TRUE_V :> 1) @@ eav0 ELSE eav0
        ce == IF is_delete
              THEN [textual |-> TRUE, tree |-> <<"not_exists", DEL_A>>]
              ELSE NoCondition
    IN  decorate_update_request([ue |-> update_expression, ce |-> ce, ean |-> ean, eav |-> eav],
                                caller_identity, update_action, TRUE, date_now)

\* f'REMOVE {",".join(attributes)}'
RemoveExpression(attributes) == <<REMOVE, SP>> \o join(<<COMMA>>, attributes)

\* utils.remove_internal_attrs
remove_internal_attrs(d) ==
    Without(d, {APP, LAST_UPDATED_BY, LAST_UPDATE_DATE, LAST_UPDATE_ACTION, <<"api">>, <<"type">>})

\* the attributes of the current item with the item master among them
remove_tokens_with_master(current) ==
    items(remove_internal_attrs(Without(current, {pk_name, ITEM_VERSION, TOMBSTONED})))

\* the attributes a tombstone removes from the current item
remove_tokens(current) ==
    items(remove_internal_attrs(
              Without(current, {pk_name, ITEM_VERSION, ITEM_MASTER_ID, TOMBSTONED})))

\* the update expression of delete_resource
DeleteExpression(tombstone, tokens) ==
    LET upd == <<SET, SP>> \o Assign(DEL_A, DEL_V)
        tombstone_upd == upd \o <<COMMA, SP>> \o Assign(TOMBSTONED, TRUE_V)
    IN  IF ~tombstone THEN upd
        ELSE IF Len(tokens) > 0
        THEN tombstone_upd \o <<SP, REMOVE, SP>> \o join(<<COMMA>>, tokens)
        ELSE tombstone_upd

\* every update expression that reaches _simple_update
SimpleExpressions ==
    {RemoveExpression(l) : l \in ResourceAttributeLists \cup MetadataAttributeLists}
    \cup {DeleteExpression(FALSE, <<>>)}
    \cup {DeleteExpression(TRUE, remove_tokens([k \in S |-> 0])) : S \in SUBSET StoredNames}

\* the requests of _simple_update as the store reads them
SimpleUpdateRequest ==
    Tabulate([x \in SimpleExpressions \X Callers \X {ACTION_DELETE, ACTION_REMOVE_ATTRIBUTE}
                       \X Dates |->
                 ParseUpdate(SimpleUpdateArgs(x[1], x[2], x[3], x[4]))])

\* _simple_update: True when the store applied the update, False when its
\* condition failed, DetailedException for any other failure
_simple_update(item, id, update_expression, caller_identity, update_action, date_now) ==
    LET r == StoreApply(item, id, pk_name,
                        SimpleUpdateRequest[<<update_expression, caller_identity,
                                              update_action, date_now>>])
    IN  CASE r.status = "ok" -> [status |-> "ok", ret |-> TRUE, item |-> r.item]
          [] r.status = "ConditionalCheckFailedException" ->
                [status |-> "ok", ret |-> FALSE, item |-> item]
          [] OTHER -> [status |-> "DetailedException", ret |-> FALSE, item |-> item]

D_A == <<"#", "d">>
T_A == <<"#", "t">>
ENABLED_V == <<":", "enabled">>
DISABLED_V == <<":", "disabled">>
FALSE_V == <<":", "false">>

\* the restore request without the version increment
RestoreArgsUnversioned(caller_identity, date_now) ==
    decorate_update_request(
        [ue |-> <<SET, SP>> \o Assign(D_A, DISABLED_V) \o <<SP, REMOVE, SP>> \o T_A,
         ce |-> [textual |-> TRUE,
                 tree |-> <<"and", <<"eq", D_A, ENABLED_V>>,
                                   <<"or", <<"eq", T_A, FALSE_V>>, <<"not_exists", T_A>>>>>>],
         ean |-> (T_A :> TOMBSTONED) @@ (D_A :> <<"deleted">>),
         eav |-> (ENABLED_V :> 1) @@ (DISABLED_V :> 0) @@ (FALSE_V :> 0)],
        caller_identity, ACTION_RESTORE, FALSE, date_now)

\* the restore request conditioned on the deleted flag alone
RestoreArgsAnyDeleted(caller_identity, date_now) ==
    decorate_update_request(
        [ue |-> <<SET, SP>> \o Assign(D_A, DISABLED_V) \o <<SP, REMOVE, SP>> \o T_A,
         ce |-> [textual |-> TRUE, tree |-> <<"eq", D_A, ENABLED_V>>],
         ean |-> (T_A :> TOMBSTONED) @@ (D_A :> <<"deleted">>),
         eav |-> (ENABLED_V :> 1) @@ (DISABLED_V :> 0)],
        caller_identity, ACTION_RESTORE, TRUE, date_now)

RestoreArgs(caller_identity, date_now) ==
    decorate_update_request(
        [ue |-> <<SET, SP>> \o Assign(D_A, DISABLED_V) \o <<SP, REMOVE, SP>> \o T_A,
         ce |-> [textual |-> TRUE,
                 tree |-> <<"and", <<"eq", D_A, ENABLED_V>>,
                                   <<"or", <<"eq", T_A, FALSE_V>>, <<"not_exists", T_A>>>>>>],
         ean |-> (T_A :> TOMBSTONED) @@ (D_A :> <<"deleted">>),
         eav |-> (ENABLED_V :> 1) @@ (DISABLED_V :> 0) @@ (FALSE_V :> 0)],
        caller_identity, ACTION_RESTORE, TRUE, date_now)

\* the requests of restore as the store reads them
RestoreRequest == Tabulate([x \in Callers \X Dates |-> ParseUpdate(RestoreArgs(x[1], x[2]))])

restore(item, id, caller_identity, date_now) ==
    IF ~Exists(_fetch_item(item, TRUE))
    THEN [status |-> "ResourceNotFoundException", ret |-> FALSE, item |-> item]
    ELSE LET r == StoreApply(item, id, pk_name, RestoreRequest[<<caller_identity, date_now>>])
         IN  CASE r.status = "ok" -> [status |-> "ok", ret |-> TRUE, item |-> r.item]
               [] r.status = "ConditionalCheckFailedException" ->
                     [status |-> "InvalidArgumentsException", ret |-> FALSE, item |-> item]
               [] OTHER -> [status |-> r.status, ret |-> FALSE, item |-> item]

remove_resource_attributes(item, id, resource_attributes, caller_identity, date_now) ==
    _simple_update(item, id, RemoveExpression(resource_attributes),
                   caller_identity, ACTION_REMOVE_ATTRIBUTE, date_now)

\* the requested delete mode, whatever the namespace allows
set_delete_mode_unchecked(cfg, kwargs) ==
    IF kwargs.DeleteMode # None THEN kwargs.DeleteMode[1] ELSE cfg.delete_mode

\* the delete mode delete_resource applies: the requested one only when the
\* namespace allows the change at runtime
set_delete_mode(cfg, kwargs) ==
    IF kwargs.DeleteMode # None /\ cfg.allow_runtime_delete_mode_change
       /\ kwargs.DeleteMode[1] # cfg.delete_mode
    THEN kwargs.DeleteMode[1]
    ELSE cfg.delete_mode

delete_resource(item, id, cfg, kwargs, date_now) ==
    LET current == _fetch_item(item, FALSE)
    IN  IF set_delete_mode(cfg, kwargs) = DELETE_MODE_TOMBSTONE
        THEN IF Exists(current)
             THEN _simple_update(item, id, DeleteExpression(TRUE, remove_tokens(current)),
                                 cfg.caller, ACTION_DELETE, date_now)
             ELSE [status |-> "ResourceNotFoundException", ret |-> FALSE, item |-> item]
        ELSE _simple_update(item, id, DeleteExpression(FALSE, <<>>),
                            cfg.caller, ACTION_DELETE, date_now)

\* utils.get_metaid
get_metaid(id) == id \o <<"-meta">>

\* the keys of the Metadata table
MetaKeys == Ids \cup {get_metaid(id) : id \in Ids}

remove_metadata_attributes(mt, id, metadata_attributes, caller_identity, date_now) ==
    _simple_update(mt[id], id, RemoveExpression(metadata_attributes),
                   caller_identity, ACTION_REMOVE_ATTRIBUTE, date_now)

\* delete_metadata: Table.delete_item on the Metadata table
delete_metadata(mt, id) == [mt EXCEPT ![get_metaid(id)] = NoItem]

\* delete: the outcome, with the Resource table rt and the Metadata table mt
\* as they are stored afterwards
delete(rt, mt, id, cfg, kwargs, date_now) ==
    LET attrs_of_resource == kwargs.Resource # None /\ Len(kwargs.Resource[1]) > 0
        only_metadata == kwargs.Metadata # None /\ kwargs.Resource = None
        do_delete_metadata == IF only_metadata THEN TRUE
                              ELSE cfg.delete_mode = DELETE_MODE_TOMBSTONE
        mt1 == IF do_delete_metadata THEN delete_metadata(mt, id) ELSE mt
    IN  IF attrs_of_resource
        THEN IF \E i \in 1..Len(kwargs.Resource[1]) : kwargs.Resource[1][i] = ITEM_MASTER_ID
             THEN [status |-> "InvalidArgumentsException", ret |-> FALSE, rt |-> rt, mt |-> mt]
             ELSE LET r == remove_resource_attributes(rt[id], id, kwargs.Resource[1],
                                                      cfg.caller, date_now)
                  IN  [status |-> r.status, ret |-> r.ret,
                       rt |-> [rt EXCEPT ![id] = r.item], mt |-> mt]
        ELSE IF only_metadata /\ Len(kwargs.Metadata[1]) > 0
        THEN LET r == remove_metadata_attributes(mt, id, kwargs.Metadata[1], cfg.caller, date_now)
             IN  [status |-> r.status, ret |-> r.ret, rt |-> rt,
                  mt |-> [mt EXCEPT ![id] = r.item]]
        ELSE IF only_metadata
        THEN [status |-> "ok", ret |-> TRUE, rt |-> rt, mt |-> mt1]
        ELSE LET r == delete_resource(rt[id], id, cfg, kwargs, date_now)
             IN  [status |-> r.status, ret |-> r.ret,
                  rt |-> [rt EXCEPT ![id] = r.item], mt |-> mt1]

----------------------------------------------------------------------------
(* DataAPIStorageHandler: _do_update, update_item                           *)

\* _sanitise_item_lastupdate_info
_sanitise_item_lastupdate_info(item) ==
    Without(item, {pk_name, LAST_UPDATE_DATE, LAST_UPDATED_BY, LAST_UPDATE_ACTION, ITEM_VERSION})

\* _render_obj_as_update over the keys ks: one "#k = :k" per key into the
\* clause handler_target
RECURSIVE _render_obj_as_update(_, _, _)
_render_obj_as_update(tokens, ks, handler_target) ==
    IF ks = <<>> THEN tokens
    ELSE _render_obj_as_update(
             add_expression_item(tokens, handler_target, Assign(NameRef(ks[1]), ValueRef(ks[1]))),
             Tail(ks), handler_target)

\* the Attr() condition on the item master of a Resource item
MasterCondition(resource_id) ==
    [textual |-> FALSE,
     tree |-> <<"or", <<"not_exists", ITEM_MASTER_ID>>, <<"eq", ITEM_MASTER_ID, resource_id>>>>]

\* the error _do_update raises while it assembles the conditions, if any:
\* _render_obj_as_update is called without its handler_target (TypeError),
\* the ItemVersion is read from the sanitised item (KeyError), " AND ".join
\* meets the Attr() condition object (TypeError)
ConditionError(sane, item_version, is_resource_table, update_constraints, cfg) ==
    IF is_resource_table /\ (update_constraints # None \/ cfg.strict_occv)
    THEN IF update_constraints # None THEN "TypeError"
         ELSE IF item_version # None /\ ITEM_VERSION \notin DOMAIN sane THEN "KeyError"
         ELSE IF ~cfg.allow_non_itemmaster_writes THEN "TypeError"
         ELSE "none"
    ELSE "none"

\* the request _do_update sends to the store when no error was raised
DoUpdateArgs(resource_id, sane, item_version, is_resource_table, cfg, date_now) ==
    LET version_doc == IF item_version # None THEN (ITEM_VERSION :> item_version[1]) ELSE NoMap
        ks == items(version_doc) \o items(sane)
        update_expression ==
            _render_obj_as_update(add_expression_item(NoTokens, REMOVE, DEL_A), ks, SET)
        occv == is_resource_table /\ cfg.strict_occv
        keys == DOMAIN version_doc \cup DOMAIN sane
        attribute_names ==
            [r \in {DEL_A} \cup {NameRef(k) : k \in keys}
                   \cup (IF occv THEN {NameRef(ITEM_VERSION)} ELSE {}) |->
                IF \E k \in keys : NameRef(k) = r
                THEN CHOOSE k \in keys : NameRef(k) = r
                ELSE IF r = DEL_A THEN DELETED ELSE ITEM_VERSION]
        attribute_values ==
            [r \in {ValueRef(k) : k \in keys} |->
                LET k == CHOOSE x \in keys : ValueRef(x) = r
                IN  IF k \in DOMAIN sane THEN sane[k] ELSE version_doc[k]]
        occv_condition ==
            IF item_version # None
            THEN <<"or", <<"not_exists", NameRef(ITEM_VERSION)>>,
                         <<"eq", NameRef(ITEM_VERSION), ValueRef(ITEM_VERSION)>>>>
            ELSE <<"not_exists", NameRef(ITEM_VERSION)>>
        ce == IF occv THEN [textual |-> TRUE, tree |-> occv_condition]
              ELSE IF is_resource_table /\ ~cfg.allow_non_itemmaster_writes
              THEN MasterCondition(resource_id)
              ELSE NoCondition
    IN  decorate_update_request(
            [ue |-> get_expression(update_expression), ce |-> ce,
             ean |-> attribute_names, eav |-> attribute_values],
            cfg.caller, ACTION_UPDATE, TRUE, date_now)

\* the requests of _do_update as the store reads them: those on the Resource
\* table and those on the Metadata table
DoUpdateRequest ==
    Tabulate(
    [x \in ((Ids \X {_sanitise_item_lastupdate_info(d) : d \in ResourceDocs}
                 \X Opt(Versions) \X {TRUE})
            \cup ({get_metaid(id) : id \in Ids}
                  \X {_sanitise_item_lastupdate_info(d) : d \in MetadataDocs}
                  \X {None} \X {FALSE}))
           \X Configs \X Dates |->
        ParseUpdate(DoUpdateArgs(x[1][1], x[1][2], x[1][3], x[1][4], x[2], x[3]))])

\* _do_update on the stored item cur of a table
_do_update(cur, resource_id, item, item_version, is_resource_table, update_constraints, cfg, date_now) ==
    LET sane == _sanitise_item_lastupdate_info(item)
        err == ConditionError(sane, item_version, is_resource_table, update_constraints, cfg)
        r == StoreApply(cur, resource_id, pk_name,
                        DoUpdateRequest[<< <<resource_id, sane, item_version, is_resource_table>>,
                                           cfg, date_now>>])
    IN  IF err # "none" THEN [status |-> err, item |-> cur]
        ELSE IF r.status = "ConditionalCheckFailedException"
        THEN [status |-> "ConstraintViolationException", item |-> cur]
        ELSE r

\* update_item of a namespace that has no Resource schema
update_item(rt, mt, id, cfg, kwargs, date_now) ==
    LET m == _do_update(mt[get_metaid(id)], get_metaid(id), kwargs.Metadata[1], None, FALSE,
                        None, cfg, date_now)
        mt1 == IF kwargs.Metadata # None THEN [mt EXCEPT ![get_metaid(id)] = m.item] ELSE mt
        r == _do_update(rt[id], id, kwargs.Resource[1], kwargs.ItemVersion, TRUE,
                        kwargs.Constraints, cfg, date_now)
    IN  IF kwargs.Metadata = None /\ kwargs.Resource = None
        THEN [status |-> "TypeError", rt |-> rt, mt |-> mt]
        ELSE IF kwargs.Metadata # None /\ m.status # "ok"
        THEN [status |-> m.status, rt |-> rt, mt |-> mt]
        ELSE IF kwargs.Resource = None
        THEN [status |-> "ok", rt |-> rt, mt |-> mt1]
        ELSE IF ITEM_MASTER_ID \in DOMAIN kwargs.Resource[1]
        THEN [status |-> "InvalidArgumentsException", rt |-> rt, mt |-> mt1]
        ELSE [status |-> r.status, rt |-> [rt EXCEPT ![id] = r.item], mt |-> mt1]

----------------------------------------------------------------------------
(* Item master: DataAPIStorageHandler.item_master_update and               *)
(* AwsDataAPI.item_master_delete                                            *)

\* str.split(','): the texts between the commas
RECURSIVE SplitComma(_, _, _)
SplitComma(s, i, cur) ==
    IF i > Len(s) THEN <<cur>>
    ELSE IF s[i] = COMMA THEN <<cur>> \o SplitComma(s, i + 1, <<>>)
    ELSE SplitComma(s, i + 1, Append(cur, s[i]))

V_V == <<":", "v">>

\* the link request without the condition that the target exists
MasterUpdateArgsUnconditional(v, item_master_id, caller_identity, date_now) ==
    decorate_update_request(
        [ue |-> <<SET, SP>> \o Assign(ITEM_MASTER_ID, V_V),
         ce |-> NoCondition,
         ean |-> NoMap,
         eav |-> (V_V :> item_master_id)],
        caller_identity, ACTION_UPDATE, TRUE, date_now)

MasterUpdateArgs(v, item_master_id, caller_identity, date_now) ==
    decorate_update_request(
        [ue |-> <<SET, SP>> \o Assign(ITEM_MASTER_ID, V_V),
         ce |-> [textual |-> FALSE, tree |-> <<"eq", pk_name, v>>],
         ean |-> NoMap,
         eav |-> (V_V :> item_master_id)],
        caller_identity, ACTION_UPDATE, TRUE, date_now)

\* the requests of item_master_update as the store reads them
MasterUpdateRequest ==
    Tabulate([x \in Ids \X Ids \X Callers \X Dates |->
                 ParseUpdate(MasterUpdateArgs(x[1], x[2], x[3], x[4]))])

\* the loop over the target keys: the table afterwards and one result per key
RECURSIVE MasterUpdateLoop(_, _, _, _, _, _)
MasterUpdateLoop(rt, values, item_master_id, caller_identity, date_now, update_response) ==
    IF values = <<>> THEN [status |-> "ok", rt |-> rt, response |-> update_response]
    ELSE LET v == values[1]
             r == StoreApply(rt[v], v, pk_name,
                             MasterUpdateRequest[<<v, item_master_id, caller_identity, date_now>>])
         IN  IF r.status = "ValidationException"
             THEN [status |-> r.status, rt |-> rt, response |-> update_response]
             ELSE MasterUpdateLoop([rt EXCEPT ![v] = r.item], Tail(values), item_master_id,
                                   caller_identity, date_now,
                                   Append(update_response,
                                          [key |-> v, Updated |-> r.status = "ok"]))

\* kwargs.pk is the text of the target keys, kwargs.ItemMasterID the master
item_master_update(rt, caller_identity, kwargs, date_now) ==
    IF ~Exists(_fetch_item(rt[kwargs.ItemMasterID], FALSE))
    THEN [status |-> "InvalidArgumentsException", rt |-> rt, response |-> <<>>]
    ELSE MasterUpdateLoop(rt, SplitComma(kwargs.pk, 1, <<>>), kwargs.ItemMasterID,
                          caller_identity, date_now, <<>>)

item_master_delete(rt, caller_identity, kwargs, date_now) ==
    LET current == _fetch_item(rt[kwargs.pk], FALSE)
        r == remove_resource_attributes(rt[kwargs.pk], kwargs.pk, <<ITEM_MASTER_ID>>,
                                        caller_identity, date_now)
    IN  IF ~Exists(current)
        THEN [status |-> "ResourceNotFoundException", ret |-> FALSE, rt |-> rt]
        ELSE IF ITEM_MASTER_ID \notin DOMAIN current
        THEN [status |-> "ok", ret |-> TRUE, rt |-> rt]
        ELSE IF kwargs.ItemMasterID = None \/ current[ITEM_MASTER_ID] # kwargs.ItemMasterID[1]
        THEN [status |-> "InvalidArgumentsException", ret |-> FALSE, rt |-> rt]
        ELSE [status |-> r.status, ret |-> r.ret, rt |-> [rt EXCEPT ![kwargs.pk] = r.item]]

----------------------------------------------------------------------------
(* DataAPIStorageHandler: check, get, list_items, find                      *)

\* the number of items a response holds at most
DEFAULT_MAX_RESPONSE_SIZE == 1

Limits == 1..MaxLimit

\* the number of items the store reads for one page when no Limit is given
PageSizes == 1..MaxPageSize

\* a resume token is the bare key of an item or the store's LastEvaluatedKey
Tokens == {"key", "dict"} \X Ids

\* the order in which the store walks the keys of a table
KeyOrder == KeysOf(Ids)
MetaKeyOrder == KeysOf(MetaKeys)

\* the attributes with a secondary index, of the Resource and the Metadata table
_table_indexes == {TYPE}
_meta_indexes == {}

check(rt, id) ==
    IF Exists(_fetch_item(rt[id], FALSE))
    THEN [status |-> "ok", Exists |-> TRUE]
    ELSE [status |-> "ResourceNotFoundException", Exists |-> FALSE]

_fetch_meta(mt, id) == Without(_fetch_item(mt[get_metaid(id)], FALSE), {pk_name})

get(rt, mt, id, suppress_meta_fetch) ==
    LET item == _fetch_item(rt[id], FALSE)
    IN  IF ~Exists(item)
        THEN [status |-> "ResourceNotFoundException", Resource |-> NoItem, Metadata |-> NoItem]
        ELSE [status |-> "ok", Resource |-> item,
              Metadata |-> IF suppress_meta_fetch THEN NoItem ELSE _fetch_meta(mt, id)]

DELETED_A == <<"#", "deleted">>
DELETED_V == <<":", "deleted">>

\* a filter expression is a condition tree; NoFilter when args holds none,
\* EmptyFilter for the text ''
NoFilter == <<"true">>
EmptyFilter == <<"empty">>

_add_deleted_filter(args) ==
    LET deleted_filter == <<"or", <<"not_exists", DELETED_A>>, <<"ne", DELETED_A, DELETED_V>>>>
    IN  [fe |-> IF args.fe # NoFilter THEN <<"and", args.fe, deleted_filter>> ELSE deleted_filter,
         ean |-> (DELETED_A :> DELETED) @@ args.ean,
         eav |-> (DELETED_V :> 1) @@ args.eav]

\* re.sub('\W+', '', string)
make_ddb_expressionval(string) ==
    SelectSeq(string, LAMBDA c : c \notin {SP, COMMA, "#", ":", "=", "-"})

RECURSIVE JoinAnd(_)
JoinAnd(fs) == IF Len(fs) = 1 THEN fs[1] ELSE <<"and", fs[1], JoinAnd(Tail(fs))>>

\* _get_filter_expression of a dict of filters
_get_filter_expression(filters) ==
    LET ks == items(filters)
        key(k) == <<"#">> \o make_ddb_expressionval(k)
        value(k) == <<":">> \o make_ddb_expressionval(k)
    IN  [fe |-> IF ks = <<>> THEN EmptyFilter
                ELSE JoinAnd([i \in 1..Len(ks) |-> <<"eq", key(ks[i]), value(ks[i])>>]),
         ean |-> [r \in {key(k) : k \in DOMAIN filters} |->
                     CHOOSE k \in DOMAIN filters : key(k) = r],
         eav |-> [r \in {value(k) : k \in DOMAIN filters} |->
                     filters[CHOOSE k \in DOMAIN filters : value(k) = r]]]

RECURSIVE FilterOk(_)
FilterOk(c) ==
    CASE c[1] \in {"and", "or"} -> FilterOk(c[2]) /\ FilterOk(c[3])
      [] c[1] = "empty" -> FALSE
      [] OTHER -> TRUE

KeysAfter(order, start) ==
    IF \E i \in 1..Len(order) : order[i] = start
    THEN SubSeq(order, (CHOOSE i \in 1..Len(order) : order[i] = start) + 1, Len(order))
    ELSE order

\* Table.scan and Table.query: one page.  The store walks the keys after the
\* start key in its order; the items it reads are those that exist and meet
\* the key condition args.kc (of a query).  It reads at most Limit items, and
\* at most page_size, filters what it read, and returns a LastEvaluatedKey
\* whenever it stopped on that number.
StorePage(table, order, args, page_size) ==
    LET after == IF args.start = None THEN order ELSE KeysAfter(order, args.start[1][2])
        rest == SelectSeq(after, LAMBDA k : Exists(table[k])
                                            /\ CondHolds(args.kc, FALSE, table[k], NoMap, NoMap))
        n == IF args.limit # None /\ args.limit[1] < page_size THEN args.limit[1] ELSE page_size
        evaluated == IF n < Len(rest) THEN SubSeq(rest, 1, n) ELSE rest
        hit == SelectSeq(evaluated,
                         LAMBDA k : CondHolds(args.fe, TRUE, table[k], args.ean, args.eav))
    IN  IF ~FilterOk(args.fe) \/ (args.start # None /\ args.start[1][1] # "key")
        THEN [status |-> "ValidationException", Items |-> <<>>, LastEvaluatedKey |-> None]
        ELSE [status |-> "ok",
              Items |-> [i \in 1..Len(hit) |-> table[hit[i]]],
              LastEvaluatedKey |-> IF n <= Len(rest) THEN Some(evaluated[n]) ELSE None]

\* the filter of a scan or a query: the deleted filter and the filters given
FilterArgs(filters) ==
    LET deleted == _add_deleted_filter([fe |-> NoFilter, ean |-> NoMap, eav |-> NoMap])
        given == _get_filter_expression(filters[1])
    IN  IF filters = None THEN deleted
        ELSE [fe |-> <<"and", deleted.fe, given.fe>>,
              ean |-> given.ean @@ deleted.ean,
              eav |-> given.eav @@ deleted.eav]

\* _perform_query: a query of the index on index_attr.  The start key names
\* the index attribute alone, which the store does not accept for an index.
_perform_query(table, order, last_key, index_attr, search_value, query_filters, kwargs, page_size) ==
    LET f == FilterArgs(query_filters)
        page == StorePage(table, order,
                          [kc |-> <<"eq", index_attr, search_value>>, fe |-> f.fe, ean |-> f.ean,
                           eav |-> f.eav, start |-> None, limit |-> kwargs.limit],
                          page_size)
    IN  IF last_key # None \/ page.status # "ok"
        THEN [status |-> "ClientError", Items |-> <<>>, LastEvaluatedKey |-> None]
        ELSE [status |-> "ok", Items |-> page.Items,
              LastEvaluatedKey |-> IF page.LastEvaluatedKey = None THEN None
                                   ELSE Some(<<"dict", page.LastEvaluatedKey[1]>>)]

\* _perform_scan: kwargs holds the limit, the segment and the total segments
\* asked for; the only segmentation asked for is segment 0 of 1
_perform_scan(table, order, last_key, scan_filters, do_limit_in_scan, limit_in_kwargs, kwargs, page_size) ==
    LET f == FilterArgs(scan_filters)
        page == StorePage(table, order,
                          [kc |-> <<"true">>, fe |-> f.fe, ean |-> f.ean, eav |-> f.eav,
                           start |-> last_key,
                           limit |-> IF do_limit_in_scan THEN kwargs.limit ELSE None],
                          page_size)
        page_items == page.Items
        set_limit == IF kwargs.limit # None THEN kwargs.limit[1] ELSE DEFAULT_MAX_RESPONSE_SIZE
        kept == IF Len(page_items) > set_limit THEN SubSeq(page_items, 1, set_limit) ELSE page_items
    IN  IF kwargs.segment # None /\ kwargs.total_segments = None
        THEN [status |-> "InvalidArgumentsException", Items |-> <<>>, LastEvaluatedKey |-> None]
        ELSE IF page.status # "ok"
        THEN [status |-> "InvalidArgumentsException", Items |-> <<>>, LastEvaluatedKey |-> None]
        ELSE IF (~do_limit_in_scan /\ limit_in_kwargs)
                \/ Len(page_items) > DEFAULT_MAX_RESPONSE_SIZE
        THEN [status |-> "ok", Items |-> kept,
              LastEvaluatedKey |-> IF kept = <<>> THEN None
                                   ELSE Some(<<"key", kept[Len(kept)][pk_name]>>)]
        ELSE [status |-> "ok", Items |-> page_items,
              LastEvaluatedKey |-> IF page.LastEvaluatedKey = None THEN None
                                   ELSE Some(<<"dict", page.LastEvaluatedKey[1]>>)]

\* the requests of list: LastEvaluatedKey, limit, segment and total segments
ListRequests ==
    [LastEvaluatedKey : Opt(Tokens), limit : Opt(Limits),
     segment : Opt({0}), total_segments : Opt({1})]

list_items(rt, kwargs, page_size) ==
    _perform_scan(rt, KeyOrder, kwargs.LastEvaluatedKey, None, TRUE, TRUE,
                  [limit |-> kwargs.limit, segment |-> kwargs.segment,
                   total_segments |-> kwargs.total_segments],
                  page_size)

\* a search document of find is absent from the request, null, or a document
Absent == [given |-> "absent", doc |-> NoMap]
Null == [given |-> "null", doc |-> NoMap]
Given(docs) == {[given |-> "doc", doc |-> d] : d \in docs}

ResourceCriteria ==
    Docs(ResourceNames) \cup {(ITEM_MASTER_ID :> m) : m \in Ids}
    \cup {(ITEM_MASTER_ID :> m) @@ (COLOR :> 1) : m \in Ids} \cup {NoMap}
MetadataCriteria == Docs(MetadataNames) \cup {NoMap}

FindRequests ==
    [Resource : {Absent, Null} \cup Given(ResourceCriteria),
     Metadata : {Absent, Null} \cup Given(MetadataCriteria),
     ExclusiveStartKey : Opt(Tokens), limit : Opt(Limits)]

\* the first field of the search document that has an index, if any
IndexField(search_doc, index_attrs) ==
    LET ks == items(search_doc)
        found == SelectSeq(ks, LAMBDA k : k \in index_attrs \/ k = ITEM_MASTER_ID)
    IN  IF found = <<>> THEN None ELSE Some(found[1])

find(rt, mt, kwargs, page_size) ==
    LET of_resource == kwargs.Resource.given = "doc"
        search_table == IF of_resource THEN rt ELSE mt
        order == IF of_resource THEN KeyOrder ELSE MetaKeyOrder
        index_attrs == IF of_resource THEN _table_indexes ELSE _meta_indexes
        search_doc == IF of_resource THEN kwargs.Resource.doc ELSE kwargs.Metadata.doc
        k == IndexField(search_doc, index_attrs)
        scan_kwargs == [limit |-> kwargs.limit, segment |-> None, total_segments |-> None]
    IN  IF kwargs.Resource.given = "doc" /\ kwargs.Metadata.given = "doc"
        THEN [status |-> "InvalidArgumentsException", Items |-> <<>>, LastEvaluatedKey |-> None]
        ELSE IF kwargs.Resource.given = "absent" /\ kwargs.Metadata.given = "absent"
        THEN [status |-> "InvalidArgumentsException", Items |-> <<>>, LastEvaluatedKey |-> None]
        ELSE IF kwargs.Resource.given # "doc" /\ kwargs.Metadata.given # "doc"
        THEN [status |-> "UnimplementedFeatureException", Items |-> <<>>,
              LastEvaluatedKey |-> None]
        ELSE IF k # None
        THEN _perform_query(search_table, order, kwargs.ExclusiveStartKey, k[1],
                            search_doc[k[1]], Some(Without(search_doc, {k[1]})),
                            scan_kwargs, page_size)
        ELSE _perform_scan(search_table, order, kwargs.ExclusiveStartKey, Some(search_doc),
                           FALSE, kwargs.limit # None, scan_kwargs, page_size)

----------------------------------------------------------------------------
(* AwsDataAPI: _validate_arn_id, get; utils.shred_arn                        *)

COLON == ":"
ENCODED_COLON == "%3A"

AWS_DATA_API_SHORTNAME == "dapi"

\* the table, the account and the region of the namespace, and others
_table_name == <<"table">>
_account == <<"account">>
_region == <<"region">>
TableNames == {_table_name, <<"other-table">>}
Accounts == {_account, <<"other-account">>}
Regions == {_region, <<"other-region">>}

\* urllib.parse.unquote
unquote(s) == [i \in 1..Len(s) |-> IF s[i] = ENCODED_COLON THEN COLON ELSE s[i]]

quote(s) == [i \in 1..Len(s) |-> IF s[i] = COLON THEN ENCODED_COLON ELSE s[i]]

\* str.split(':')
RECURSIVE SplitColon(_, _, _)
SplitColon(s, i, cur) ==
    IF i > Len(s) THEN <<cur>>
    ELSE IF s[i] = COLON THEN <<cur>> \o SplitColon(s, i + 1, <<>>)
    ELSE SplitColon(s, i + 1, Append(cur, s[i]))

\* utils.get_arn_base
get_arn_base == <<"arn", COLON, "aws", COLON, AWS_DATA_API_SHORTNAME>>

\* utils.get_arn and utils.versioned_arn
get_arn(id, table_name, deployed_account, region) ==
    join(<<COLON>>, <<get_arn_base, region, deployed_account, table_name, id>>)

versioned_arn(id, table_name, deployed_account, region, item_version) ==
    get_arn(id, table_name, deployed_account, region) \o <<COLON, item_version>>

\* utils.shred_arn: the inner _get_arn requires its argument, and the call
\* for seven tokens passes none
shred_arn(arn) ==
    LET tokens == SplitColon(arn, 1, <<>>)
        d == [region |-> tokens[4], account |-> tokens[5], table |-> tokens[6],
              id |-> tokens[7]]
    IN  IF ~Contains(arn, <<COLON>>) THEN [status |-> "ok", arn |-> None]
        ELSE IF Len(tokens) = 7 THEN [status |-> "TypeError", arn |-> None]
        ELSE IF Len(tokens) = 8 THEN [status |-> "ok", arn |-> Some(d)]
        ELSE [status |-> "ok", arn |-> None]

_validate_arn_id(id) ==
    LET decoded_id == unquote(id)
        shredded == shred_arn(decoded_id)
        arn == shredded.arn[1]
        not_found == [status |-> "ResourceNotFoundException", fetch_id |-> None]
    IN  IF ~Contains(decoded_id, get_arn_base)
        THEN [status |-> "ok", fetch_id |-> Some(decoded_id)]
        ELSE IF shredded.status # "ok" THEN [status |-> shredded.status, fetch_id |-> None]
        ELSE IF shredded.arn = None THEN not_found
        ELSE IF _account # arn.account THEN not_found
        ELSE IF _table_name # arn.table THEN not_found
        ELSE IF arn.region # _region THEN not_found
        ELSE [status |-> "ok", fetch_id |-> Some(arn.id)]

\* the identifiers given to the facade: bare keys, the addresses of a key
\* under each region, account and table, with and without a version, also
\* url-quoted, and addresses of too few and of too many parts
WellFormed ==
    {get_arn(id, t, a, r) : id \in Ids, t \in TableNames, a \in Accounts, r \in Regions}
    \cup {versioned_arn(id, t, a, r, "1") :
             id \in Ids, t \in TableNames, a \in Accounts, r \in Regions}
Malformed ==
    {get_arn_base \o <<COLON>> \o id : id \in Ids}
    \cup {versioned_arn(id, _table_name, _account, _region, "1") \o <<COLON, "x">> : id \in Ids}
Identifiers ==
    Ids \cup WellFormed \cup Malformed \cup {quote(a) : a \in WellFormed \cup Malformed}

ValidatedId == Tabulate([id \in Identifiers |-> _validate_arn_id(id)])

ITEM_MASTER_INCLUDE == "include"
ITEM_MASTER_PREFER == "prefer"

\* str.lower of a master option
lower(s) ==
    CASE s = "Include" -> "include"
      [] s = "PREFER" -> "prefer"
      [] OTHER -> s

MasterOptions == Opt({"include", "Include", "prefer", "PREFER", "other"})

\* the response of get holding what the storage handler returned
Structured(r) == [Resource |-> r.Resource, Metadata |-> r.Metadata]

\* AwsDataAPI.get, with the Item set under every master option
api_get_with_item(rt, mt, id, master_option) ==
    LET v == ValidatedId[id]
        r == get(rt, mt, v.fetch_id[1], FALSE)
        linked == ITEM_MASTER_ID \in DOMAIN r.Resource
        wants_master ==
            /\ linked /\ master_option # None
            /\ lower(master_option[1]) \in {lower(ITEM_MASTER_INCLUDE), lower(ITEM_MASTER_PREFER)}
        master == get(rt, mt, r.Resource[ITEM_MASTER_ID], FALSE)
    IN  IF v.status # "ok" THEN [status |-> v.status, response |-> NoMap]
        ELSE IF r.status # "ok" THEN [status |-> r.status, response |-> NoMap]
        ELSE IF wants_master /\ master.status # "ok"
        THEN [status |-> master.status, response |-> NoMap]
        ELSE [status |-> "ok",
              response |-> ("Item" :> Structured(r))
                           @@ (IF wants_master THEN ("Master" :> Structured(master)) ELSE NoMap)]

\* AwsDataAPI.get
api_get(rt, mt, id, master_option) ==
    LET v == ValidatedId[id]
        r == get(rt, mt, v.fetch_id[1], FALSE)
        linked == ITEM_MASTER_ID \in DOMAIN r.Resource
        wants_item ==
            \/ ~linked \/ master_option = None
            \/ lower(master_option[1]) = lower(ITEM_MASTER_INCLUDE)
        wants_master ==
            /\ linked /\ master_option # None
            /\ lower(master_option[1]) \in {lower(ITEM_MASTER_INCLUDE), lower(ITEM_MASTER_PREFER)}
        master == get(rt, mt, r.Resource[ITEM_MASTER_ID], FALSE)
    IN  IF v.status # "ok" THEN [status |-> v.status, response |-> NoMap]
        ELSE IF r.status # "ok" THEN [status |-> r.status, response |-> NoMap]
        ELSE IF wants_master /\ master.status # "ok"
        THEN [status |-> master.status, response |-> NoMap]
        ELSE [status |-> "ok",
              response |-> (IF wants_item THEN ("Item" :> Structured(r)) ELSE NoMap)
                           @@ (IF wants_master THEN ("Master" :> Structured(master)) ELSE NoMap)]

----------------------------------------------------------------------------
(* ApiMetadata and DynamoTableUtils.control_table_update: the Meta records  *)
(* of the control table; DataApiCache; the route get_table_metadata         *)

MaxApi == 2
MaxFacades == 3

ApiNames == {<<"api", ToString(i)>> : i \in 1..MaxApi}

STATUS == <<"Status">>
STATUS_CREATING == "Creating"
STATUS_ACTIVE == "Active"
DELETE_MODE == <<"DeleteMode">>
CONTROL_HASH == <<"api">>
CONTROL_SORT == <<"type">>
CONTROL_TYPE_META == "Meta"
SYSTEM == "System"

\* the documents of a metadata update, and the body of the request: null, an
\* empty list or a document
MetaDocs ==
    [{DELETE_MODE} -> {DELETE_MODE_SOFT, DELETE_MODE_TOMBSTONE}]
    \cup [{STATUS} -> {STATUS_CREATING, STATUS_ACTIVE}]
EmptyList == [given |-> "list", doc |-> NoMap]
MetaUpdates == {Null, EmptyList} \cup Given(MetaDocs \cup {NoMap})

\* the metadata a namespace is provisioned with, before its status is added
ProvisionDocs == [{DELETE_MODE} -> {DELETE_MODE_SOFT}]

\* control_table_update: the request that sets every attribute of updates
ControlUpdateArgs(updates, caller_identity, date_now) ==
    LET ks == items(updates)
        token(k) == make_ddb_expressionval(k)
        update_expressions ==
            [i \in 1..Len(ks) |-> Assign(NameRef(token(ks[i])), ValueRef(token(ks[i])))]
    IN  decorate_update_request(
            [ue |-> <<SET, SP>> \o join(<<COMMA, SP>>, update_expressions),
             ce |-> NoCondition,
             ean |-> [r \in {NameRef(token(k)) : k \in DOMAIN updates} |->
                         CHOOSE k \in DOMAIN updates : NameRef(token(k)) = r],
             eav |-> [r \in {ValueRef(token(k)) : k \in DOMAIN updates} |->
                         updates[CHOOSE k \in DOMAIN updates : ValueRef(token(k)) = r]]],
            caller_identity, ACTION_UPDATE, FALSE, date_now)

ControlDocs == MetaDocs \cup {NoMap} \cup {(STATUS :> STATUS_CREATING) @@ d : d \in ProvisionDocs}

ControlUpdateRequest ==
    Tabulate([x \in ControlDocs \X Dates |-> ParseUpdate(ControlUpdateArgs(x[1], SYSTEM, x[2]))])

\* control_table_update of the Meta record item of the namespace
control_table_update(item, control_hash, updates, date_now) ==
    LET r == StoreApply(item, control_hash, CONTROL_HASH, ControlUpdateRequest[<<updates, date_now>>])
    IN  IF r.status = "ok"
        THEN [status |-> "ok", item |-> (CONTROL_SORT :> CONTROL_TYPE_META) @@ r.item,
              response |-> Some(r.item)]
        ELSE [status |-> "DetailedException", item |-> item, response |-> None]

\* ApiMetadata.create_metadata
create_metadata(item, api_name, kwargs, date_now) ==
    control_table_update(item, api_name, kwargs, date_now)

\* ApiMetadata.update_metadata: no write for a body that is null or []
update_metadata(item, api_name, updates, date_now) ==
    IF updates.given = "doc"
    THEN control_table_update(item, api_name, updates.doc, date_now)
    ELSE [status |-> "ok", item |-> item, response |-> None]

\* ApiMetadata.get_api_metadata without attribute filters
get_api_metadata(control, api_name) == control[api_name]

\* load_api: a new AwsDataAPI, the instance-th constructed, configured with
\* the metadata
load_api(kwargs, instance) == [instance |-> instance, config |-> remove_internal_attrs(kwargs)]

\* DataApiCache.add and DataApiCache.remove
cache_add(cache, key, api) == (key :> [handler |-> api]) @@ cache

cache_remove(cache, api_name) == [k \in DOMAIN cache \ {api_name} |-> cache[k]]

\* DataApiCache.get that loads from the metadata whether cached or not
cache_get_uncached(cache, control, built, api_name) ==
    LET meta == get_api_metadata(control, api_name)
        api == load_api((<<"ApiName">> :> api_name) @@ (<<"Region">> :> _region)
                        @@ (APP :> "app") @@ meta, built + 1)
    IN  IF ~Exists(meta)
        THEN [status |-> "BadRequestError", api |-> None, cache |-> cache,
              built |-> built, loaded |-> TRUE]
        ELSE IF STATUS \in DOMAIN meta /\ meta[STATUS] = STATUS_CREATING
        THEN [status |-> "InvalidArgumentsException", api |-> None, cache |-> cache,
              built |-> built, loaded |-> TRUE]
        ELSE [status |-> "ok", api |-> Some(api), cache |-> cache_add(cache, api_name, api),
              built |-> built + 1, loaded |-> TRUE]

\* DataApiCache.get: the facade returned, the cache and the number of
\* facades constructed afterwards, and whether the metadata store was read
cache_get(cache, control, built, api_name) ==
    IF api_name \notin DOMAIN cache
    THEN cache_get_uncached(cache, control, built, api_name)
    ELSE [status |-> "ok", api |-> Some(cache[api_name].handler), cache |-> cache,
          built |-> built, loaded |-> FALSE]

\* the route get_table_metadata for PUT, without the eviction
get_table_metadata_unevicted(cache, control, api_name, updates, date_now) ==
    LET r == update_metadata(control[api_name], api_name, updates, date_now)
    IN  [status |-> r.status, cache |-> cache,
         control |-> [control EXCEPT ![api_name] = r.item], response |-> r.response]

\* the route get_table_metadata for PUT: the metadata update, then the
\* eviction of the facade if something was written
get_table_metadata(cache, control, api_name, updates, date_now) ==
    LET r == update_metadata(control[api_name], api_name, updates, date_now)
    IN  [status |-> r.status,
         cache |-> IF r.status = "ok" /\ r.response # None
                   THEN cache_remove(cache, api_name) ELSE cache,
         control |-> [control EXCEPT ![api_name] = r.item], response |-> r.response]

----------------------------------------------------------------------------
(* JSON schemas: ApiMetadata.put_schema, DynamoTableUtils.get_control_item, *)
(* SchemaCacheEntry, and the schema validation of update_item               *)

MaxThreshold == 2
MaxHits == 4

CONTROL_TYPE_RESOURCE_SCHEMA == <<"ResourceSchema">>
STRICT_SCHEMA_VALIDATION == "StrictSchemaValidation"
REQUIRED == <<"required">>
SCHEMA_API == <<"api", "1">>

\* a JSON schema document: the attributes an item is required to carry
Schemas == [{REQUIRED} -> {{}, {COLOR}, {TYPE}}]

\* what the JSON schema standard asks of an item under a schema document
Conforms(item, schema) == schema[REQUIRED] \subseteq DOMAIN item

\* fastjsonschema.compile: the validator of the keywords found at the top
\* level of the document; other attributes of the document are ignored
compile(definition) ==
    [required |-> IF REQUIRED \in DOMAIN definition THEN definition[REQUIRED] ELSE {}]

\* calling a compiled validator: TRUE when no exception is raised
validator_call(validator, item) == validator.required \subseteq DOMAIN item

\* put_schema nests the schema under the name of the schema type
SchemaControlDocs == [{CONTROL_TYPE_RESOURCE_SCHEMA} -> Schemas]

SchemaUpdateRequest ==
    Tabulate([x \in SchemaControlDocs \X Callers \X Dates |->
                 ParseUpdate(ControlUpdateArgs(x[1], x[2], x[3]))])

\* ApiMetadata.put_schema for the Resource schema: the control item afterwards
put_schema(item, api_name, caller_identity, schema, date_now) ==
    LET doc == (CONTROL_TYPE_RESOURCE_SCHEMA :> schema)
        r == StoreApply(item, api_name, CONTROL_HASH,
                        SchemaUpdateRequest[<<doc, caller_identity, date_now>>])
    IN  IF r.status = "ok"
        THEN (CONTROL_SORT :> CONTROL_TYPE_RESOURCE_SCHEMA) @@ r.item
        ELSE item

\* DynamoTableUtils.get_control_item: the stored item without its keys
get_control_item(item) ==
    IF Exists(item) THEN Some(Without(item, {CONTROL_HASH, CONTROL_SORT})) ELSE None

\* ApiMetadata.get_schema: the schema nested in the control item
get_schema(item) ==
    LET schema == get_control_item(item)
    IN  IF schema # None THEN Some(schema[1][CONTROL_TYPE_RESOURCE_SCHEMA]) ELSE None

\* SchemaCacheEntry(entry_type, schema, refresh_count)
SchemaCacheEntry(schema, refresh_count) ==
    [_schema |-> schema, _schema_validator |-> compile(schema),
     _schema_validation_refresh_hitcount |-> refresh_count, _usage_count |-> 0]

\* validate_item that counts every call
validate_item_counting(e, item) ==
    [status |-> IF validator_call(e._schema_validator, item)
                THEN "ok" ELSE "InvalidArgumentsException",
     entry |-> [e EXCEPT !._usage_count = @ + 1]]

\* SchemaCacheEntry.validate_item
validate_item(e, item) ==
    IF validator_call(e._schema_validator, item)
    THEN [status |-> "ok", entry |-> [e EXCEPT !._usage_count = @ + 1]]
    ELSE [status |-> "InvalidArgumentsException", entry |-> e]

\* SchemaCacheEntry.needs_refresh
needs_refresh(e) == e._usage_count >= e._schema_validation_refresh_hitcount

\* the schema fields of a storage handler after construction
NewHandler(hitcount) ==
    [_schema_loaded |-> FALSE, _schema |-> None, _schema_validator |-> compile(NoItem),
     _schema_validation_refresh_hitcount |-> hitcount, _schema_dependent_hit_count |-> 0,
     stale_writes |-> 0]

\* DataAPIStorageHandler._refresh_schema
_refresh_schema(h, control) ==
    LET schema == get_control_item(control)
    IN  IF schema # None
        THEN [h EXCEPT !._schema = schema, !._schema_validator = compile(schema[1]),
                       !._schema_loaded = TRUE]
        ELSE [h EXCEPT !._schema = None]

\* update_item, the validation of the Resource: the reload of the schema when
\* it is due, the validation and the count of validated writes
validate_resource(h, control, id, item, strict_schema) ==
    LET due == \/ ~h._schema_loaded
               \/ strict_schema
               \/ h._schema_dependent_hit_count % h._schema_validation_refresh_hitcount = 0
        h1 == IF due THEN _refresh_schema(h, control) ELSE h
        with_id == IF pk_name \in DOMAIN item THEN item ELSE (pk_name :> id) @@ item
    IN  IF h1._schema # None /\ ~validator_call(h1._schema_validator, with_id)
        THEN [status |-> "InvalidArgumentsException", handler |-> h1, reloaded |-> due]
        ELSE [status |-> "ok", reloaded |-> due,
              handler |-> [h1 EXCEPT !._schema_dependent_hit_count = @ + 1]]

\* update_item after the Metadata part: u holds the outcome of the request
\* with and without its Resource part, v the outcome of the validation
validated_outcome(rt, h, kwargs, u, v) ==
    IF kwargs.Resource = None \/ ITEM_MASTER_ID \in DOMAIN kwargs.Resource[1]
       \/ (kwargs.Metadata # None /\ u[FALSE].status # "ok")
    THEN [status |-> u[TRUE].status, rt |-> u[TRUE].rt, mt |-> u[TRUE].mt,
          handler |-> h, validated |-> FALSE, reloaded |-> FALSE]
    ELSE IF v.status # "ok"
    THEN [status |-> v.status, rt |-> rt, mt |-> u[FALSE].mt, handler |-> v.handler,
          validated |-> TRUE, reloaded |-> v.reloaded]
    ELSE [status |-> u[TRUE].status, rt |-> u[TRUE].rt, mt |-> u[TRUE].mt,
          handler |-> v.handler, validated |-> TRUE, reloaded |-> v.reloaded]

\* update_item of a handler whose namespace may have a Resource schema
update_item_validated(rt, mt, h, control, id, cfg, kwargs, strict_schema, date_now) ==
    validated_outcome(rt, h, kwargs,
        [with_resource \in BOOLEAN |->
            update_item(rt, mt, id, cfg,
                        IF with_resource THEN kwargs ELSE [kwargs EXCEPT !.Resource = None],
                        date_now)],
        validate_resource(h, control, id,
                          IF kwargs.Resource = None THEN NoItem ELSE kwargs.Resource[1],
                          strict_schema))

----------------------------------------------------------------------------
(* State: the configuration of the namespace, its Resource table and its    *)
(* Metadata table; a client that pages through list or find; the control    *)
(* table's Meta records, the cache of facades and the number of facades     *)
(* constructed; the Resource schema of the control table, the schema state  *)
(* of the storage handler and a SchemaCacheEntry                            *)

VARIABLES namespace, resource_table, metadata_table, reader, api_metadata, _api_cache, constructed, control_schema, schema_state, entry, builder, inflight

store_vars == <<namespace, resource_table, metadata_table>>
read_vars == <<reader>>
cache_vars == <<api_metadata, _api_cache, constructed>>
schema_vars == <<control_schema, schema_state, entry>>
builder_vars == <<builder>>
race_vars == <<inflight>>

vars == <<store_vars, read_vars, cache_vars, schema_vars, builder_vars, race_vars>>

NoReader == [pc |-> "idle"]
NoSchemaState == [pc |-> "idle"]
NoEntry == [pc |-> "idle"]
NoBuilder == [pc |-> "idle"]
NoInflight == [pc |-> "idle"]

Version(item) == IF ITEM_VERSION \in DOMAIN item THEN item[ITEM_VERSION] ELSE 0

RECURSIVE SumVersions(_, _)
SumVersions(table, keys) ==
    IF keys = {} THEN 0
    ELSE LET k == CHOOSE x \in keys : TRUE
         IN  Version(table[k]) + SumVersions(table, keys \ {k})

\* the writes the tables have taken
Writes == SumVersions(resource_table, Ids) + SumVersions(metadata_table, MetaKeys)

\* no client pages, no namespace is provisioned, no schema is stored
ReadIdle == reader = NoReader
CacheIdle == api_metadata = NoMap /\ _api_cache = NoMap /\ constructed = 0
SchemaIdle == control_schema = NoItem /\ schema_state = NoSchemaState /\ entry = NoEntry
BuilderIdle == builder = NoBuilder
RaceIdle == inflight = NoInflight

Init ==
    /\ namespace \in Configs
    /\ resource_table = [id \in Ids |-> NoItem]
    /\ metadata_table = [k \in MetaKeys |-> NoItem]
    /\ ReadIdle /\ CacheIdle /\ SchemaIdle /\ BuilderIdle /\ RaceIdle

Update(id, kwargs, date_now) ==
    LET r == update_item(resource_table, metadata_table, id, namespace, kwargs, date_now)
    IN  /\ Writes < MaxWrites
        /\ resource_table' = r.rt
        /\ metadata_table' = r.mt
        /\ UNCHANGED <<namespace, read_vars, cache_vars, schema_vars, builder_vars, race_vars>>

Delete(id, kwargs, date_now) ==
    LET r == delete(resource_table, metadata_table, id, namespace, kwargs, date_now)
    IN  /\ Writes < MaxWrites
        /\ resource_table' = r.rt
        /\ metadata_table' = r.mt
        /\ UNCHANGED <<namespace, read_vars, cache_vars, schema_vars, builder_vars, race_vars>>

Restore(id, date_now) ==
    LET r == restore(resource_table[id], id, namespace.caller, date_now)
    IN  /\ Writes < MaxWrites
        /\ resource_table' = [resource_table EXCEPT ![id] = r.item]
        /\ UNCHANGED <<namespace, metadata_table, read_vars, cache_vars, schema_vars, builder_vars, race_vars>>

ItemMasterUpdate(kwargs, date_now) ==
    LET r == item_master_update(resource_table, namespace.caller, kwargs, date_now)
    IN  /\ Writes < MaxWrites
        /\ resource_table' = r.rt
        /\ UNCHANGED <<namespace, metadata_table, read_vars, cache_vars, schema_vars, builder_vars, race_vars>>

ItemMasterDelete(kwargs, date_now) ==
    LET r == item_master_delete(resource_table, namespace.caller, kwargs, date_now)
    IN  /\ Writes < MaxWrites
        /\ resource_table' = r.rt
        /\ UNCHANGED <<namespace, metadata_table, read_vars, cache_vars, schema_vars, builder_vars, race_vars>>

Next ==
    \/ \E id \in Ids, kwargs \in UpdateRequests, d \in Dates : Update(id, kwargs, d)
    \/ \E id \in Ids, kwargs \in DeleteRequests, d \in Dates : Delete(id, kwargs, d)
    \/ \E id \in Ids, d \in Dates : Restore(id, d)
    \/ \E kwargs \in MasterUpdateRequests, d \in Dates : ItemMasterUpdate(kwargs, d)
    \/ \E kwargs \in MasterDeleteRequests, d \in Dates : ItemMasterDelete(kwargs, d)

Spec == Init /\ [][Next]_vars

----------------------------------------------------------------------------
(* A client that pages through list or find: it passes the limit it chose   *)
(* and the LastEvaluatedKey of the page before, until a page has none       *)

\* the namespaces of the tables paged through
ReadConfigs ==
    {cfg \in Configs : ~cfg.strict_occv /\ cfg.allow_non_itemmaster_writes
                        /\ ~cfg.allow_runtime_delete_mode_change}

\* the tables after the item of key id was left out, created with a
\* document, or created and deleted
DatasetChoices(cfg, rt, id) ==
    LET mt == [k \in MetaKeys |-> NoItem]
        created(doc) ==
            update_item(rt, mt, id, cfg,
                        [Resource |-> Some(doc), Metadata |-> None, ItemVersion |-> None,
                         Constraints |-> None], 1).rt
        deleted(doc) ==
            delete(created(doc), mt, id, cfg,
                   [Resource |-> None, Metadata |-> None, DeleteMode |-> None], 1).rt
    IN  {rt} \cup {created(doc) : doc \in Docs(ResourceNames)}
             \cup {deleted(doc) : doc \in Docs(ResourceNames)}

RECURSIVE Datasets(_, _)
Datasets(cfg, ids) ==
    IF ids = {} THEN {[id \in Ids |-> NoItem]}
    ELSE LET id == CHOOSE x \in ids : TRUE
         IN  UNION {DatasetChoices(cfg, rt, id) : rt \in Datasets(cfg, ids \ {id})}

\* the client starts a list, or a find for a Resource document, with a limit
Readers ==
    [op : {"list"}, criteria : {NoMap}, limit : Limits, page_size : PageSizes,
     token : {None}, pages : {<<>>}, calls : {0}, pc : {"paging"}]
    \cup [op : {"find"}, criteria : Docs(ResourceNames), limit : Limits,
          page_size : PageSizes, token : {None}, pages : {<<>>}, calls : {0},
          pc : {"paging"}]

ReadInit ==
    /\ namespace \in ReadConfigs
    /\ resource_table \in Datasets(namespace, Ids)
    /\ metadata_table = [k \in MetaKeys |-> NoItem]
    /\ reader \in Readers
    /\ CacheIdle /\ SchemaIdle /\ BuilderIdle /\ RaceIdle

\* the client takes the page r of one more call: it fails with the call, or
\* keeps the keys of the items and the resume token, and is done when there
\* is none
TakePage(r) ==
    IF r.status # "ok" THEN [reader EXCEPT !.pc = "failed", !.calls = @ + 1]
    ELSE [reader EXCEPT !.pages = @ \o [i \in 1..Len(r.Items) |-> r.Items[i][pk_name]],
                        !.calls = @ + 1,
                        !.token = r.LastEvaluatedKey,
                        !.pc = IF r.LastEvaluatedKey = None THEN "done" ELSE "paging"]

ListPage ==
    /\ reader.pc = "paging" /\ reader.op = "list"
    /\ reader' = TakePage(list_items(resource_table,
                                     [LastEvaluatedKey |-> reader.token,
                                      limit |-> Some(reader.limit),
                                      segment |-> None, total_segments |-> None],
                                     reader.page_size))
    /\ UNCHANGED <<store_vars, cache_vars, schema_vars, builder_vars, race_vars>>

FindPage ==
    /\ reader.pc = "paging" /\ reader.op = "find"
    /\ reader' = TakePage(find(resource_table, metadata_table,
                               [Resource |-> [given |-> "doc", doc |-> reader.criteria],
                                Metadata |-> Absent,
                                ExclusiveStartKey |-> reader.token,
                                limit |-> Some(reader.limit)],
                               reader.page_size))
    /\ UNCHANGED <<store_vars, cache_vars, schema_vars, builder_vars, race_vars>>

ReadNext == ListPage \/ FindPage

\* the client goes on calling while it holds a resume token
ReadSpec == ReadInit /\ [][ReadNext]_vars /\ WF_vars(ReadNext)

----------------------------------------------------------------------------
(* The instance cache of the request router: namespaces are provisioned by  *)
(* the provisioning function, routes get their facade from the cache, and   *)
(* the metadata route updates the Meta record of a namespace                *)

\* the storage of a namespace nothing is written to
StoreIdle ==
    /\ namespace = [strict_occv |-> FALSE, allow_non_itemmaster_writes |-> TRUE,
                    delete_mode |-> DELETE_MODE_SOFT,
                    allow_runtime_delete_mode_change |-> FALSE, caller |-> 1]
    /\ resource_table = [id \in Ids |-> NoItem]
    /\ metadata_table = [k \in MetaKeys |-> NoItem]

CacheInit ==
    /\ api_metadata = [n \in ApiNames |-> NoItem]
    /\ _api_cache = NoMap
    /\ constructed = 0
    /\ StoreIdle /\ ReadIdle /\ SchemaIdle /\ BuilderIdle /\ RaceIdle

\* provisioning_lambda for a namespace not yet known: the Meta record is
\* created with the status Creating
ProvisionCreate(api_name, doc, date_now) ==
    LET r == create_metadata(api_metadata[api_name], api_name,
                             (STATUS :> STATUS_CREATING) @@ doc, date_now)
    IN  /\ ~Exists(api_metadata[api_name])
        /\ api_metadata' = [api_metadata EXCEPT ![api_name] = r.item]
        /\ UNCHANGED <<_api_cache, constructed, store_vars, read_vars, schema_vars, builder_vars, race_vars>>

\* provisioning_lambda at its end: the status becomes Active
ProvisionActivate(api_name, date_now) ==
    LET r == update_metadata(api_metadata[api_name], api_name,
                             [given |-> "doc", doc |-> (STATUS :> STATUS_ACTIVE)], date_now)
    IN  /\ Exists(api_metadata[api_name])
        /\ api_metadata[api_name][STATUS] = STATUS_CREATING
        /\ api_metadata' = [api_metadata EXCEPT ![api_name] = r.item]
        /\ UNCHANGED <<_api_cache, constructed, store_vars, read_vars, schema_vars, builder_vars, race_vars>>

\* a route asks the cache for the facade of the namespace
CacheGet(api_name) ==
    LET r == cache_get(_api_cache, api_metadata, constructed, api_name)
    IN  /\ r.built <= MaxFacades
        /\ _api_cache' = r.cache
        /\ constructed' = r.built
        /\ UNCHANGED <<api_metadata, store_vars, read_vars, schema_vars, builder_vars, race_vars>>

\* PUT on the metadata route of a provisioned namespace
MetadataRoute(api_name, updates, date_now) ==
    LET r == get_table_metadata(_api_cache, api_metadata, api_name, updates, date_now)
    IN  /\ Exists(api_metadata[api_name])
        /\ api_metadata' = r.control
        /\ _api_cache' = r.cache
        /\ UNCHANGED <<constructed, store_vars, read_vars, schema_vars, builder_vars, race_vars>>

CacheNext ==
    \/ \E n \in ApiNames, doc \in ProvisionDocs, d \in Dates : ProvisionCreate(n, doc, d)
    \/ \E n \in ApiNames, d \in Dates : ProvisionActivate(n, d)
    \/ \E n \in ApiNames : CacheGet(n)
    \/ \E n \in ApiNames, updates \in MetaUpdates, d \in Dates : MetadataRoute(n, updates, d)

CacheSpec == CacheInit /\ [][CacheNext]_vars

----------------------------------------------------------------------------
(* Properties                                                               *)

Stored(id) == resource_table[id]

UpdateResult(id, kwargs, date_now) ==
    update_item(resource_table, metadata_table, id, namespace, kwargs, date_now)

DeleteResult(id, kwargs, date_now) ==
    delete(resource_table, metadata_table, id, namespace, kwargs, date_now)

\* the delete of a whole item, with or without a requested delete mode
WholeDeletes == {kwargs \in DeleteRequests : kwargs.Resource = None /\ kwargs.Metadata = None}

\* the primary key and the reserved fields of a Resource item
ReservedNames ==
    {pk_name, ITEM_VERSION, ITEM_MASTER_ID, DELETED, TOMBSTONED,
     LAST_UPDATE_DATE, LAST_UPDATED_BY, LAST_UPDATE_ACTION}

IsDeleted(item) == Exists(item) /\ ~Visible(item)

IsTombstoned(item) == TOMBSTONED \in DOMAIN item /\ item[TOMBSTONED] = 1

\* C1: after every successful update of a Resource item the stored
\* ItemVersion is the ItemVersion stored before plus 1, and 1 when the item
\* had none, whether or not the request carried an ItemVersion
C1_UpdateIncrementsVersion ==
    \A id \in Ids, kwargs \in UpdateRequests, d \in Dates :
        kwargs.Resource # None =>
            LET r == UpdateResult(id, kwargs, d)
            IN  r.status = "ok" =>
                    /\ ITEM_VERSION \in DOMAIN r.rt[id]
                    /\ r.rt[id][ITEM_VERSION] = Version(Stored(id)) + 1

\* an item whose last write was a successful update of an item stored before
C1_Witness ==
    \E id \in Ids :
        /\ Visible(Stored(id))
        /\ ITEM_MASTER_ID \notin DOMAIN Stored(id)
        /\ Stored(id)[LAST_UPDATE_ACTION] = ACTION_UPDATE
        /\ Stored(id)[ITEM_VERSION] = 2

\* C2: an update that supplies an ItemVersion other than the stored one
\* fails with ConstraintViolation and leaves the stored item as it was
C2_StaleVersionRejected ==
    \A id \in Ids, kwargs \in UpdateRequests, d \in Dates :
        (/\ namespace.strict_occv
         /\ Exists(Stored(id))
         /\ kwargs.Resource # None /\ kwargs.Metadata = None /\ kwargs.Constraints = None
         /\ kwargs.ItemVersion # None
         /\ kwargs.ItemVersion # Some(Version(Stored(id))))
        => LET r == UpdateResult(id, kwargs, d)
           IN  r.status = "ConstraintViolationException" /\ r.rt[id] = Stored(id)

\* C3: under strict OCCV an update that supplies the stored ItemVersion n
\* raises no error, applies the supplied Resource fields and leaves the
\* stored ItemVersion at n + 1
C3_MatchingVersionApplied ==
    \A id \in Ids, kwargs \in UpdateRequests, d \in Dates :
        (/\ namespace.strict_occv
         /\ namespace.allow_non_itemmaster_writes
         /\ Visible(Stored(id))
         /\ kwargs.Resource # None /\ kwargs.Metadata = None /\ kwargs.Constraints = None
         /\ ITEM_MASTER_ID \notin DOMAIN kwargs.Resource[1]
         /\ kwargs.ItemVersion = Some(Version(Stored(id))))
        => LET r == UpdateResult(id, kwargs, d)
           IN  /\ r.status = "ok"
               /\ \A k \in DOMAIN kwargs.Resource[1] : k \in DOMAIN r.rt[id]
                                                        /\ r.rt[id][k] = kwargs.Resource[1][k]
               /\ Version(r.rt[id]) = Version(Stored(id)) + 1

\* C4: of two updates of one item under strict OCCV that both supply the
\* stored ItemVersion, whichever order their writes reach the store in, at
\* most one is applied, and one that is not applied fails with
\* ConstraintViolation and leaves the item as the other left it.  An update
\* touches the Resource table in one conditional write, so an interleaving
\* of the two requests is an order of their writes.
C4_ConcurrentSameVersion ==
    \A id \in Ids, first, second \in UpdateRequests, d \in Dates :
        (/\ namespace.strict_occv
         /\ namespace.allow_non_itemmaster_writes
         /\ Visible(Stored(id))
         /\ \A kwargs \in {first, second} :
               /\ kwargs.Resource # None /\ kwargs.Metadata = None /\ kwargs.Constraints = None
               /\ ITEM_MASTER_ID \notin DOMAIN kwargs.Resource[1]
               /\ kwargs.ItemVersion = Some(Version(Stored(id))))
        => LET r1 == UpdateResult(id, first, d)
               r2 == update_item(r1.rt, r1.mt, id, namespace, second, d)
           IN  /\ ~(r1.status = "ok" /\ r2.status = "ok")
               /\ r1.status # "ok" =>
                     r1.status = "ConstraintViolationException" /\ r1.rt[id] = Stored(id)
               /\ r2.status # "ok" =>
                     r2.status = "ConstraintViolationException" /\ r2.rt[id] = r1.rt[id]

\* C5: over every step of every operation the stored ItemVersion of an item
\* never decreases, and a step that changes the stored item raises it by
\* exactly 1
C5_VersionMonotone ==
    [][\A id \in Ids :
          /\ Version(resource_table'[id]) >= Version(resource_table[id])
          /\ resource_table'[id] # resource_table[id] =>
                Version(resource_table'[id]) = Version(resource_table[id]) + 1]_vars

\* an item that was created, deleted and restored
C5_Witness ==
    \E id \in Ids :
        /\ Visible(Stored(id))
        /\ Stored(id)[LAST_UPDATE_ACTION] = ACTION_RESTORE
        /\ Stored(id)[ITEM_VERSION] = 3

\* C6: for every existing item that is not deleted, a soft delete followed
\* by a restore succeeds, the item is returned by get again, and it carries
\* the attributes it carried before the delete
C6_SoftDeleteRestoreRoundTrip ==
    \A id \in Ids, d \in Dates :
        (Visible(Stored(id)) /\ namespace.delete_mode = DELETE_MODE_SOFT)
        => LET del == DeleteResult(id, [Resource |-> None, Metadata |-> None,
                                        DeleteMode |-> None], d)
               res == restore(del.rt[id], id, namespace.caller, d)
           IN  /\ del.status = "ok" /\ del.ret
               /\ res.status = "ok"
               /\ Visible(res.item)
               /\ Without(res.item, ReservedNames) = Without(Stored(id), ReservedNames)

\* C7: restore of an item that is tombstoned, or that exists and is not
\* deleted, fails with InvalidArguments and leaves the stored item as it was
C7_RestoreRejected ==
    \A id \in Ids, d \in Dates :
        (Exists(Stored(id)) /\ (IsTombstoned(Stored(id)) \/ Visible(Stored(id))))
        => LET r == restore(Stored(id), id, namespace.caller, d)
           IN  r.status = "InvalidArgumentsException" /\ r.item = Stored(id)

\* a tombstoned item, deleted and tombstoned still, whose restore is refused
C7_Witness ==
    \E id \in Ids :
        /\ IsTombstoned(Stored(id))
        /\ IsDeleted(Stored(id))
        /\ restore(Stored(id), id, namespace.caller, 1).status = "InvalidArgumentsException"

\* C8: after a tombstone delete of an existing item the record has
\* Deleted = 1 and Tombstoned = true and holds the primary key and reserved
\* fields only, whatever attributes the item carried
C8_TombstoneStripsAttributes ==
    \A id \in Ids, kwargs \in WholeDeletes, d \in Dates :
        (Visible(Stored(id)) /\ set_delete_mode(namespace, kwargs) = DELETE_MODE_TOMBSTONE)
        => LET r == DeleteResult(id, kwargs, d)
           IN  (r.status = "ok" /\ r.ret) =>
                   /\ DELETED \in DOMAIN r.rt[id] /\ r.rt[id][DELETED] = 1
                   /\ IsTombstoned(r.rt[id])
                   /\ DOMAIN r.rt[id] \subseteq ReservedNames

\* C9: once an item is tombstoned no later operation makes get or check
\* return it again
C9_TombstoneIrreversible ==
    [][\A id \in Ids :
          (IsTombstoned(resource_table[id]) /\ IsDeleted(resource_table[id]))
          => ~Visible(resource_table'[id])]_vars

\* C10: the delete of an item that is already deleted returns false, raises
\* no error and leaves the stored item as it was, under the soft and under
\* the tombstone policy
C10_DeleteOfDeleted ==
    \A id \in Ids, kwargs \in WholeDeletes, d \in Dates :
        IsDeleted(Stored(id))
        => LET r == DeleteResult(id, kwargs, d)
           IN  r.status = "ok" /\ ~r.ret /\ r.rt[id] = Stored(id)

\* whether the page holds the item of key id
InPage(page, id) == \E i \in 1..Len(page.Items) : page.Items[i][pk_name] = id

\* the find requests that carry one search document
SearchRequests ==
    {kwargs \in FindRequests : (kwargs.Resource.given = "doc") # (kwargs.Metadata.given = "doc")}

\* some read of the tables rt and mt returns the item of key id
Returned(rt, mt, id) ==
    \/ get(rt, mt, id, FALSE).status = "ok"
    \/ check(rt, id).status = "ok"
    \/ \E kwargs \in ListRequests, n \in PageSizes : InPage(list_items(rt, kwargs, n), id)
    \/ \E kwargs \in SearchRequests, n \in PageSizes : InPage(find(rt, mt, kwargs, n), id)

\* the step is a successful restore of the item of key id
RestoredBy(id) ==
    \E d \in Dates :
        LET r == restore(resource_table[id], id, namespace.caller, d)
        IN  r.status = "ok" /\ resource_table'[id] = r.item

\* every read leaves out an item whose record is marked deleted
MarkedDeletedNotReturned ==
    \A id \in Ids : IsDeleted(Stored(id)) => ~Returned(resource_table, metadata_table, id)

\* C11: an item that has been deleted stays out of get, check and every page
\* of list and find over every step that is not its restore
C11_DeletedNotReturned ==
    [][\A id \in Ids :
          (IsDeleted(resource_table[id]) /\ ~RestoredBy(id))
          => ~Returned(resource_table', metadata_table', id)]_vars

\* the item names another item as its master
IsNonMaster(item, id) == ITEM_MASTER_ID \in DOMAIN item /\ item[ITEM_MASTER_ID] # id

\* an update of Resource fields alone that the version condition lets
\* through: under strict OCCV it supplies the stored ItemVersion, otherwise
\* it supplies none
PlainUpdates(id) ==
    {kwargs \in UpdateRequests :
        /\ kwargs.Resource # None /\ kwargs.Metadata = None /\ kwargs.Constraints = None
        /\ ITEM_MASTER_ID \notin DOMAIN kwargs.Resource[1]
        /\ kwargs.ItemVersion = IF namespace.strict_occv THEN Some(Version(Stored(id))) ELSE None}

\* C12: an update of Resource fields of a visible item fails with
\* ConstraintViolation and writes nothing when the item names another item as
\* its master and the namespace disallows non-item-master writes; in every
\* other case the update is applied.  Strict OCCV on or off.
C12_NonMasterWrites ==
    \A id \in Ids, d \in Dates :
        Visible(Stored(id)) =>
            \A kwargs \in PlainUpdates(id) :
                LET r == UpdateResult(id, kwargs, d)
                IN  IF IsNonMaster(Stored(id), id) /\ ~namespace.allow_non_itemmaster_writes
                    THEN /\ r.status = "ConstraintViolationException"
                         /\ r.rt = resource_table /\ r.mt = metadata_table
                    ELSE r.status = "ok"

\* every constraint attribute of the stored item has the value given for it
ConstraintsHold(item, constraints) ==
    \A k \in DOMAIN constraints : k \in DOMAIN item /\ item[k] = constraints[k]

\* an update of Resource fields with Constraints that the version condition
\* lets through
ConstrainedUpdates(id) ==
    {kwargs \in UpdateRequests :
        /\ kwargs.Resource # None /\ kwargs.Metadata = None /\ kwargs.Constraints # None
        /\ ITEM_MASTER_ID \notin DOMAIN kwargs.Resource[1]
        /\ kwargs.ItemVersion = IF namespace.strict_occv THEN Some(Version(Stored(id))) ELSE None}

\* C13: an update with Constraints of a visible item that the master rule
\* lets through is applied when every constraint attribute of the stored
\* item equals the value given, and then leaves the constraint attributes it
\* does not write as they were; otherwise it fails with ConstraintViolation
\* and writes nothing
C13_ConstraintsCompared ==
    \A id \in Ids, d \in Dates :
        (Visible(Stored(id))
         /\ (namespace.allow_non_itemmaster_writes \/ ~IsNonMaster(Stored(id), id)))
        => \A kwargs \in ConstrainedUpdates(id) :
               LET r == UpdateResult(id, kwargs, d)
                   compared == DOMAIN kwargs.Constraints[1] \ DOMAIN kwargs.Resource[1]
               IN  IF ConstraintsHold(Stored(id), kwargs.Constraints[1])
                   THEN /\ r.status = "ok"
                        /\ \A k \in compared : r.rt[id][k] = Stored(id)[k]
                   ELSE /\ r.status = "ConstraintViolationException"
                        /\ r.rt = resource_table /\ r.mt = metadata_table

\* C14: with non-item-master writes disallowed and strict OCCV enabled, an
\* update with Constraints and an ItemVersion is applied when the item is
\* its own master or has none, every constraint holds and the ItemVersion is
\* the stored one; when any of the three fails it is rejected with
\* ConstraintViolation and writes nothing
C14_ConditionsConjoined ==
    \A id \in Ids, kwargs \in UpdateRequests, d \in Dates :
        (/\ namespace.strict_occv /\ ~namespace.allow_non_itemmaster_writes
         /\ Visible(Stored(id))
         /\ kwargs.Resource # None /\ kwargs.Metadata = None
         /\ kwargs.Constraints # None /\ kwargs.ItemVersion # None
         /\ ITEM_MASTER_ID \notin DOMAIN kwargs.Resource[1])
        => LET r == UpdateResult(id, kwargs, d)
           IN  IF /\ ~IsNonMaster(Stored(id), id)
                  /\ ConstraintsHold(Stored(id), kwargs.Constraints[1])
                  /\ kwargs.ItemVersion = Some(Version(Stored(id)))
               THEN r.status = "ok"
               ELSE /\ r.status = "ConstraintViolationException"
                    /\ r.rt = resource_table /\ r.mt = metadata_table

\* the stored ItemMasterID of an item, if it has one
MasterOf(item) == IF ITEM_MASTER_ID \in DOMAIN item THEN Some(item[ITEM_MASTER_ID]) ELSE None

\* the ItemMasterID of every item of the table rt is the stored one
MastersKept(rt) == \A id \in Ids : MasterOf(rt[id]) = MasterOf(Stored(id))

\* C15: an update whose Resource payload holds ItemMasterID and a delete
\* whose Resource attribute list holds ItemMasterID are rejected with
\* InvalidArguments, and every update, attribute removal, soft delete,
\* tombstone delete and restore leaves the ItemMasterID of every item as it
\* is stored
C15_MasterLinkFrame ==
    \A id \in Ids, d \in Dates :
        /\ \A kwargs \in UpdateRequests :
              LET r == UpdateResult(id, kwargs, d)
              IN  /\ MastersKept(r.rt)
                  /\ (kwargs.Resource # None /\ ITEM_MASTER_ID \in DOMAIN kwargs.Resource[1])
                     => r.status = "InvalidArgumentsException"
        /\ \A kwargs \in DeleteRequests :
              LET r == DeleteResult(id, kwargs, d)
              IN  /\ MastersKept(r.rt)
                  /\ (kwargs.Resource # None /\ ITEM_MASTER_ID \in Range(kwargs.Resource[1]))
                     => (r.status = "InvalidArgumentsException"
                         /\ r.rt = resource_table /\ r.mt = metadata_table)
        /\ MastersKept([resource_table EXCEPT
                           ![id] = restore(Stored(id), id, namespace.caller, d).item])

\* an item that carries an ItemMasterID and was deleted after it was linked
C15_Witness ==
    \E id \in Ids :
        /\ ITEM_MASTER_ID \in DOMAIN Stored(id)
        /\ Stored(id)[LAST_UPDATE_ACTION] = ACTION_DELETE

MasterUpdateResult(kwargs, date_now) ==
    item_master_update(resource_table, namespace.caller, kwargs, date_now)

\* no item that another item names as its master names a different item as
\* its own master
NoMasterChains(rt) ==
    \A a, b \in Ids : (a # b /\ MasterOf(rt[a]) = Some(b)) => ~IsNonMaster(rt[b], b)

\* C16: in every reachable state, and after every itemMasterUpdate applied
\* to it, no item that is the master of another item names a different item
\* as its master
C16_NoMasterChains ==
    /\ NoMasterChains(resource_table)
    /\ \A kwargs \in MasterUpdateRequests, d \in Dates :
          NoMasterChains(MasterUpdateResult(kwargs, d).rt)

\* C17: itemMasterUpdate with a visible master answers with one result per
\* target, in order; an existing target gets the ItemMasterID and
\* Updated = true, a target with no record gets no record and
\* Updated = false, and the items that are no target stay as they are
C17_MasterUpdatePerTarget ==
    \A kwargs \in MasterUpdateRequests, d \in Dates :
        Visible(Stored(kwargs.ItemMasterID)) =>
            LET r == MasterUpdateResult(kwargs, d)
                targets == SplitComma(kwargs.pk, 1, <<>>)
            IN  /\ r.status = "ok"
                /\ Len(r.response) = Len(targets)
                /\ \A i \in 1..Len(targets) :
                      /\ r.response[i].key = targets[i]
                      /\ IF Exists(Stored(targets[i]))
                         THEN /\ r.response[i].Updated
                              /\ MasterOf(r.rt[targets[i]]) = Some(kwargs.ItemMasterID)
                         ELSE /\ ~r.response[i].Updated
                              /\ r.rt[targets[i]] = NoItem
                /\ \A id \in Ids \ Range(targets) : r.rt[id] = Stored(id)

\* a request of two targets whose first has no record and whose second is
\* linked all the same
C17_Witness ==
    \E kwargs \in MasterUpdateRequests, d \in Dates :
        LET r == MasterUpdateResult(kwargs, d)
        IN  /\ Visible(Stored(kwargs.ItemMasterID))
            /\ Len(r.response) = 2
            /\ ~r.response[1].Updated /\ r.response[2].Updated
            /\ MasterOf(r.rt[r.response[2].key]) = Some(kwargs.ItemMasterID)

\* C18: itemMasterDelete of a visible item removes the ItemMasterID when the
\* stored one equals the asserted one; when the stored one differs, or the
\* item stores none, it raises InvalidArguments and changes nothing
C18_MasterDeleteAsserted ==
    \A kwargs \in MasterDeleteRequests, d \in Dates :
        Visible(Stored(kwargs.pk)) =>
            LET r == item_master_delete(resource_table, namespace.caller, kwargs, d)
            IN  IF MasterOf(Stored(kwargs.pk)) # None
                   /\ kwargs.ItemMasterID = MasterOf(Stored(kwargs.pk))
                THEN /\ r.status = "ok"
                     /\ MasterOf(r.rt[kwargs.pk]) = None
                ELSE /\ r.status = "InvalidArgumentsException"
                     /\ r.rt = resource_table

\* the delete request of a whole item that asks for the delete mode mode
DeleteWithMode(mode) == [Resource |-> None, Metadata |-> None, DeleteMode |-> Some(mode)]

\* C19: when the namespace does not allow the delete mode to change at
\* runtime, a delete with a requested mode does what the same delete without
\* one does; when it allows it, the delete of a whole item does to the
\* Resource table what a delete without a requested mode does in a namespace
\* whose policy is the requested mode
C19_DeleteModeOverride ==
    \A id \in Ids, kwargs \in DeleteRequests, d \in Dates :
        kwargs.DeleteMode # None =>
            LET r == DeleteResult(id, kwargs, d)
                unasked == [kwargs EXCEPT !.DeleteMode = None]
                plain == DeleteResult(id, unasked, d)
                other == delete(resource_table, metadata_table, id,
                                [namespace EXCEPT !.delete_mode = kwargs.DeleteMode[1]],
                                unasked, d)
            IN  IF ~namespace.allow_runtime_delete_mode_change
                THEN r = plain
                ELSE (kwargs.Resource = None /\ kwargs.Metadata = None)
                     => (r.status = other.status /\ r.ret = other.ret /\ r.rt = other.rt)

\* a soft-delete namespace that allows no change, where a delete that asks
\* for a tombstone soft-deletes a visible item
C19_Witness ==
    \E id \in Ids, d \in Dates :
        LET r == DeleteResult(id, DeleteWithMode(DELETE_MODE_TOMBSTONE), d)
        IN  /\ ~namespace.allow_runtime_delete_mode_change
            /\ namespace.delete_mode = DELETE_MODE_SOFT
            /\ Visible(Stored(id))
            /\ r.status = "ok" /\ r.ret
            /\ IsDeleted(r.rt[id]) /\ ~IsTombstoned(r.rt[id])

\* the attributes a caller writes, of the item without those of names
Rest(item, names) == Without(item, ReservedNames \cup names)

\* C20: for a visible item, a delete with a non-empty attribute list under
\* Resource removes the listed attributes from the Resource record, keeps
\* the others, leaves the item visible and the Metadata as it was; a delete
\* with a non-empty list under Metadata alone does the same to the Metadata
\* record and leaves the Resource record as it was; a delete with an empty
\* Metadata list alone deletes the Metadata record and leaves the Resource
\* record as it was
C20_AttributeRemoval ==
    \A id \in Ids, kwargs \in DeleteRequests, d \in Dates :
        Visible(Stored(id)) =>
            LET r == DeleteResult(id, kwargs, d)
                meta == metadata_table[get_metaid(id)]
            IN  /\ (kwargs.Resource # None /\ kwargs.Resource[1] # <<>>
                    /\ Range(kwargs.Resource[1]) \subseteq ResourceNames)
                   => /\ r.status = "ok"
                      /\ DOMAIN r.rt[id] \cap Range(kwargs.Resource[1]) = {}
                      /\ Rest(r.rt[id], {}) = Rest(Stored(id), Range(kwargs.Resource[1]))
                      /\ Visible(r.rt[id])
                      /\ r.mt = metadata_table
                /\ (kwargs.Resource = None /\ kwargs.Metadata # None
                    /\ kwargs.Metadata[1] # <<>> /\ Exists(meta))
                   => /\ r.status = "ok"
                      /\ DOMAIN r.mt[get_metaid(id)] \cap Range(kwargs.Metadata[1]) = {}
                      /\ Rest(r.mt[get_metaid(id)], {}) = Rest(meta, Range(kwargs.Metadata[1]))
                      /\ r.rt = resource_table
                /\ (kwargs.Resource = None /\ kwargs.Metadata = Some(<<>>))
                   => /\ r.status = "ok"
                      /\ r.mt[get_metaid(id)] = NoItem
                      /\ r.rt = resource_table

\* the find request names no search document, or names two
NotOneCriteria(kwargs) == (kwargs.Resource.given = "doc") = (kwargs.Metadata.given = "doc")

\* C21: a find request that supplies both Resource and Metadata criteria, or
\* neither (each key missing or null), is rejected with
\* InvalidArgumentsException and returns nothing of the tables
C21_FindOneCriteria ==
    \A kwargs \in FindRequests, n \in PageSizes :
        NotOneCriteria(kwargs)
        => LET r == find(resource_table, metadata_table, kwargs, n)
           IN  r.status = "InvalidArgumentsException" /\ r.Items = <<>>

\* the set of the items of a page
ItemSet(page) == {page.Items[i] : i \in 1..Len(page.Items)}

\* the Resource search documents that name a field with an index
IndexedCriteria == {doc \in ResourceCriteria : IndexField(doc, _table_indexes) # None}

\* find of the Resource document doc from the start, without a limit
FindResource(doc) ==
    [Resource |-> [given |-> "doc", doc |-> doc], Metadata |-> Absent,
     ExclusiveStartKey |-> None, limit |-> None]

\* the full scan find makes for doc when none of its fields has an index
ScanFor(rt, doc, page_size) ==
    _perform_scan(rt, KeyOrder, None, Some(doc), FALSE, FALSE,
                  [limit |-> None, segment |-> None, total_segments |-> None], page_size)

\* C22: for criteria one field of which has an index, whenever the full scan
\* for the same criteria returns all its items in one page, find returns the
\* same set of items, and neither holds an item marked deleted; this includes
\* criteria made of the indexed field alone
C22_IndexEqualsScan ==
    \A doc \in IndexedCriteria, n \in PageSizes :
        LET q == find(resource_table, metadata_table, FindResource(doc), n)
            s == ScanFor(resource_table, doc, n)
        IN  (s.status = "ok" /\ s.LastEvaluatedKey = None)
            => /\ q.status = "ok"
               /\ ItemSet(q) = ItemSet(s)
               /\ \A item \in ItemSet(q) \cup ItemSet(s) : ~IsDeleted(item)

\* the same for criteria that hold a field besides the indexed one
C22_IndexEqualsScanWithFilter ==
    \A doc \in IndexedCriteria, n \in PageSizes :
        LET q == find(resource_table, metadata_table, FindResource(doc), n)
            s == ScanFor(resource_table, doc, n)
        IN  (Cardinality(DOMAIN doc) > 1 /\ s.status = "ok" /\ s.LastEvaluatedKey = None)
            => /\ q.status = "ok"
               /\ ItemSet(q) = ItemSet(s)
               /\ \A item \in ItemSet(q) \cup ItemSet(s) : ~IsDeleted(item)

\* a stored item of type 1 that a find for type 1 alone should return
C22_SingleIndexedField ==
    \E id \in Ids :
        /\ Visible(Stored(id)) /\ TYPE \in DOMAIN Stored(id) /\ Stored(id)[TYPE] = 1
        /\ InPage(ScanFor(resource_table, (TYPE :> 1), MaxPageSize), id)
        /\ find(resource_table, metadata_table, FindResource((TYPE :> 1)), MaxPageSize).status # "ok"

\* the find requests that are answered by a scan
ScanRequests ==
    {kwargs \in SearchRequests :
        kwargs.Resource.given = "doc" => IndexField(kwargs.Resource.doc, _table_indexes) = None}

\* the keys after the start token whose items a scan with these filters
\* is to return: they exist, are not marked deleted and meet the filters
Remaining(table, order, start, filters) ==
    LET f == FilterArgs(filters)
        after == IF start = None THEN order ELSE KeysAfter(order, start[1][2])
    IN  {after[i] : i \in {j \in 1..Len(after) :
                              /\ Exists(table[after[j]])
                              /\ CondHolds(f.fe, TRUE, table[after[j]], f.ean, f.eav)}}

\* the page of the store that _perform_scan cuts its page from
ScannedPage(table, order, start, filters, limit, page_size) ==
    LET f == FilterArgs(filters)
    IN  StorePage(table, order,
                  [kc |-> <<"true">>, fe |-> f.fe, ean |-> f.ean, eav |-> f.eav,
                   start |-> start, limit |-> limit], page_size)

PageKeys(page) == {page.Items[i][pk_name] : i \in 1..Len(page.Items)}

\* the page r cut from the page scanned of the store: if items were cut off,
\* its token is the key of its last item; if it has no token, it holds every
\* item that remained
TokenOk(r, scanned, remaining) ==
    r.status = "ok"
    => /\ Len(r.Items) < Len(scanned.Items)
          => /\ r.Items # <<>>
             /\ r.LastEvaluatedKey = Some(<<"key", r.Items[Len(r.Items)][pk_name]>>)
       /\ r.LastEvaluatedKey = None => remaining \subseteq PageKeys(r)

\* C24: a page of list or of a scanning find from which items were cut off
\* carries as resume token the key of the last item it holds, and a page
\* carries no resume token only when no further matching item remains
C24_ResumeToken ==
    /\ \A kwargs \in ListRequests, n \in PageSizes :
          TokenOk(list_items(resource_table, kwargs, n),
                  ScannedPage(resource_table, KeyOrder, kwargs.LastEvaluatedKey, None,
                              kwargs.limit, n),
                  Remaining(resource_table, KeyOrder, kwargs.LastEvaluatedKey, None))
    /\ \A kwargs \in ScanRequests, n \in PageSizes :
          LET of_resource == kwargs.Resource.given = "doc"
              table == IF of_resource THEN resource_table ELSE metadata_table
              order == IF of_resource THEN KeyOrder ELSE MetaKeyOrder
              doc == IF of_resource THEN kwargs.Resource.doc ELSE kwargs.Metadata.doc
          IN  TokenOk(find(resource_table, metadata_table, kwargs, n),
                      ScannedPage(table, order, kwargs.ExclusiveStartKey, Some(doc), None, n),
                      Remaining(table, order, kwargs.ExclusiveStartKey, Some(doc)))

\* the same of list alone
C24_ListResumeToken ==
    \A kwargs \in ListRequests, n \in PageSizes :
        TokenOk(list_items(resource_table, kwargs, n),
                ScannedPage(resource_table, KeyOrder, kwargs.LastEvaluatedKey, None,
                            kwargs.limit, n),
                Remaining(resource_table, KeyOrder, kwargs.LastEvaluatedKey, None))

\* a find for color 1 with a limit returns an ok page without token although
\* a visible item of color 1 remains that the page does not hold
C24_EmptyPageNoToken ==
    \E n \in PageSizes, N \in Limits :
        LET kwargs == [FindResource((COLOR :> 1)) EXCEPT !.limit = Some(N)]
            r == find(resource_table, metadata_table, kwargs, n)
        IN  /\ r.status = "ok" /\ r.LastEvaluatedKey = None
            /\ \E id \in Ids : /\ Visible(Stored(id)) /\ COLOR \in DOMAIN Stored(id)
                               /\ ~InPage(r, id)

\* the keys the pages of the client are to hold in the end
Wanted ==
    Remaining(resource_table, KeyOrder, None,
              IF reader.op = "list" THEN None ELSE Some(reader.criteria))

\* the pages the client took hold every wanted key once and no other
PagesComplete ==
    /\ {reader.pages[i] : i \in 1..Len(reader.pages)} = Wanted
    /\ Len(reader.pages) = Cardinality(Wanted)

\* C23: a client that calls list or find with limit N and the resume token
\* of the page before never has a call rejected, and when it receives a page
\* without resume token its pages together hold every non-deleted matching
\* item exactly once
C23_PagesComplete ==
    /\ reader.pc # "failed"
    /\ reader.pc = "done" => PagesComplete

\* the paging ends: every call but the first starts after a key further on,
\* so the client makes no more calls than there are keys, and one
C23_PagingEnds == reader.calls <= MaxId + 1

\* the list of two visible items with limit 1 is rejected at its second call
C23_ListRejected ==
    /\ reader.op = "list" /\ reader.limit = 1 /\ reader.pc = "failed"
    /\ \A id \in Ids : Visible(Stored(id))
    /\ Len(reader.pages) = 1

\* a scanning find ends without an item that matches
C23_FindOmits ==
    /\ reader.op = "find" /\ reader.criteria = (COLOR :> 1) /\ reader.pc = "done"
    /\ \E id \in Wanted : \A i \in 1..Len(reader.pages) : reader.pages[i] # id

\* the key the master link of the item of key id names
MasterId(id) == Stored(id)[ITEM_MASTER_ID]

\* the item of key id carries a master link to an item that get returns
HasMaster(id) ==
    /\ Visible(Stored(id)) /\ ITEM_MASTER_ID \in DOMAIN Stored(id)
    /\ Visible(Stored(MasterId(id)))

FacadeGet(id, master_option) == api_get(resource_table, metadata_table, id, master_option)

\* what the storage handler returns for the item of key id
StoredItem(id) == Structured(get(resource_table, metadata_table, id, FALSE))

Address(id, t, a, r, versioned, quoted) ==
    LET arn == IF versioned THEN versioned_arn(id, t, a, r, "1") ELSE get_arn(id, t, a, r)
    IN  IF quoted THEN quote(arn) ELSE arn

\* get by the address answers as get by the bare key when table, account and
\* region are those of the namespace, and with ResourceNotFoundException
\* when one of them differs
Resolves(id, t, a, r, versioned, quoted) ==
    \A master_option \in MasterOptions :
        LET r_arn == FacadeGet(Address(id, t, a, r, versioned, quoted), master_option)
        IN  IF t = _table_name /\ a = _account /\ r = _region
            THEN r_arn = FacadeGet(id, master_option)
            ELSE r_arn.status = "ResourceNotFoundException" /\ r_arn.response = NoMap

\* an address of too few or too many parts is answered with
\* ResourceNotFoundException
MalformedRejected ==
    \A id \in Malformed \cup {quote(a) : a \in Malformed} :
        LET r == FacadeGet(id, None)
        IN  r.status = "ResourceNotFoundException" /\ r.response = NoMap

\* C26: an address of six parts, with or without a trailing version,
\* resolves to the bare key when its region, account and table are those of
\* the namespace, and the operation then behaves as for the bare key; when
\* one of the three differs or the address is malformed the operation raises
\* ResourceNotFoundException before the store is read
C26_AddressResolves ==
    /\ \A id \in Ids, t \in TableNames, a \in Accounts, r \in Regions,
          versioned \in BOOLEAN, quoted \in BOOLEAN :
          Resolves(id, t, a, r, versioned, quoted)
    /\ MalformedRejected

\* the same of the addresses that carry a version, and of the malformed ones
C26_VersionedAddressResolves ==
    /\ \A id \in Ids, t \in TableNames, a \in Accounts, r \in Regions, quoted \in BOOLEAN :
          Resolves(id, t, a, r, TRUE, quoted)
    /\ MalformedRejected

\* a visible item whose address without version raises TypeError
C26_UnversionedFails ==
    \E id \in Ids :
        /\ Visible(Stored(id))
        /\ FacadeGet(id, None).status = "ok"
        /\ FacadeGet(get_arn(id, _table_name, _account, _region), None).status = "TypeError"
        /\ FacadeGet(versioned_arn(id, _table_name, _account, _region, "1"), None)
           = FacadeGet(id, None)

CachedGet(api_name) == cache_get(_api_cache, api_metadata, constructed, api_name)

IsCreating(api_name) ==
    /\ Exists(api_metadata[api_name])
    /\ STATUS \in DOMAIN api_metadata[api_name]
    /\ api_metadata[api_name][STATUS] = STATUS_CREATING

C27_EntriesKept ==
    [][\A n \in DOMAIN _api_cache \cap DOMAIN _api_cache' : _api_cache'[n] = _api_cache[n]]_vars

CurrentConfig(api_name) ==
    remove_internal_attrs((<<"ApiName">> :> api_name) @@ (<<"Region">> :> _region)
                          @@ api_metadata[api_name])

C28_RemoveRehydrates ==
    [][\A n \in DOMAIN _api_cache \ DOMAIN _api_cache' :
          cache_get(_api_cache', api_metadata', constructed', n).loaded]_vars

----------------------------------------------------------------------------
(* SchemaSpec: the Resource schema of one namespace in the control table, a *)
(* storage handler that validates the writes of one item, and a            *)
(* SchemaCacheEntry                                                         *)

SchemaRequests ==
    [Resource : Opt(Docs(ResourceNames)) \ {None}, Metadata : {None},
     ItemVersion : {None}, Constraints : {None}]

ValidationItems == Docs(ResourceNames)

\* the schema the handler validates with, None when it validates nothing
LoadedSchema(h) ==
    IF h._schema # None /\ CONTROL_TYPE_RESOURCE_SCHEMA \in DOMAIN h._schema[1]
    THEN Some(h._schema[1][CONTROL_TYPE_RESOURCE_SCHEMA]) ELSE None

SchemaInit ==
    /\ StoreIdle /\ ReadIdle /\ CacheIdle /\ BuilderIdle /\ RaceIdle
    /\ control_schema = NoItem
    /\ schema_state \in {NewHandler(t) : t \in 1..MaxThreshold}
    /\ entry \in {SchemaCacheEntry(s, t) : s \in Schemas, t \in 0..MaxThreshold}

\* the route schema, PUT: the Resource schema of the namespace is set
PutSchema(schema, caller_identity, date_now) ==
    /\ control_schema' = put_schema(control_schema, SCHEMA_API, caller_identity, schema, date_now)
    /\ schema_state' = [schema_state EXCEPT !.stale_writes =
                            IF get_schema(control_schema') = get_schema(control_schema)
                            THEN @ ELSE 0]
    /\ UNCHANGED <<entry, store_vars, read_vars, cache_vars, builder_vars, race_vars>>

\* the route schema, DELETE: the control item is removed
RemoveSchema ==
    /\ Exists(control_schema)
    /\ control_schema' = NoItem
    /\ schema_state' = [schema_state EXCEPT !.stale_writes = 0]
    /\ UNCHANGED <<entry, store_vars, read_vars, cache_vars, builder_vars, race_vars>>

\* update_item of the first item by the handler; stale_writes counts the
\* writes validated since the schema was last changed with another schema
\* than the one in the control table
schema_update_step(r, control) ==
    LET stale == r.validated /\ r.status # "InvalidArgumentsException"
                 /\ LoadedSchema(r.handler) # get_schema(control)
    IN  /\ resource_table' = r.rt
        /\ metadata_table' = r.mt
        /\ schema_state' = [r.handler EXCEPT !.stale_writes = IF stale THEN @ + 1 ELSE @]

SchemaUpdate(kwargs, strict_schema, date_now) ==
    /\ schema_state._schema_dependent_hit_count < MaxHits
    /\ Writes < MaxWrites
    /\ schema_update_step(
           update_item_validated(resource_table, metadata_table, schema_state, control_schema,
                                 <<"1">>, namespace, kwargs, strict_schema, date_now),
           control_schema)
    /\ UNCHANGED <<namespace, control_schema, entry, read_vars, cache_vars, builder_vars, race_vars>>

\* SchemaCacheEntry.validate_item by the owner of the entry
EntryValidate(item) ==
    /\ entry._usage_count < MaxHits
    /\ entry' = validate_item(entry, item).entry
    /\ UNCHANGED <<control_schema, schema_state, store_vars, read_vars, cache_vars, builder_vars, race_vars>>

SchemaNext ==
    \/ \E schema \in Schemas, c \in Callers, d \in Dates : PutSchema(schema, c, d)
    \/ RemoveSchema
    \/ \E kwargs \in SchemaRequests, strict_schema \in BOOLEAN, d \in Dates :
           SchemaUpdate(kwargs, strict_schema, d)
    \/ \E item \in ValidationItems : EntryValidate(item)

SchemaSpec == SchemaInit /\ [][SchemaNext]_vars

----------------------------------------------------------------------------
\* C29: validate_item of a SchemaCacheEntry adds exactly 1 to the usage count
\* when the item conforms to the schema of the entry, and raises
\* InvalidArgumentsException and leaves the count as it was when it does not;
\* needs_refresh is false while the count is below the refresh hit count and
\* true whenever it is at or above it.
C29_ValidateCounts ==
    /\ \A item \in ValidationItems :
           LET r == validate_item(entry, item)
           IN  IF Conforms(item, entry._schema)
               THEN r.status = "ok" /\ r.entry._usage_count = entry._usage_count + 1
               ELSE /\ r.status = "InvalidArgumentsException"
                    /\ r.entry._usage_count = entry._usage_count
    /\ entry._usage_count < entry._schema_validation_refresh_hitcount => ~needs_refresh(entry)
    /\ entry._usage_count >= entry._schema_validation_refresh_hitcount => needs_refresh(entry)

\* the count of an entry never decreases and a step adds at most 1; once an
\* entry needs a refresh it needs it in every later state
C29_CountMonotone ==
    [][/\ entry'._usage_count \in {entry._usage_count, entry._usage_count + 1}
       /\ needs_refresh(entry) => needs_refresh(entry')]_vars

\* an entry that reached its refresh hit count by validations, with a schema
\* that rejects some item
C29_Witness ==
    /\ entry._schema_validation_refresh_hitcount > 0
    /\ entry._usage_count = entry._schema_validation_refresh_hitcount
    /\ needs_refresh(entry)
    /\ \E item \in ValidationItems : ~Conforms(item, entry._schema)

----------------------------------------------------------------------------
\* the Resource schema now in the control table, None when there is none
CurrentSchema == get_schema(control_schema)

\* update_item of the first item by the handler in the current state
HandlerUpdate(kwargs, strict_schema, date_now) ==
    update_item_validated(resource_table, metadata_table, schema_state, control_schema,
                          <<"1">>, namespace, kwargs, strict_schema, date_now)

\* C30: after the Resource schema is changed in the control table the handler
\* validates at most as many further Resource writes as its refresh hit count
\* with the old schema, and then applies the new one; a request with the
\* strict validation flag is validated against the schema now in the control
\* table, so a Resource it accepts conforms to that schema.
C30_SchemaStaleness ==
    /\ schema_state.stale_writes <= schema_state._schema_validation_refresh_hitcount
    /\ \A kwargs \in SchemaRequests, strict_schema \in BOOLEAN, d \in Dates :
           LET r == HandlerUpdate(kwargs, strict_schema, d)
           IN  /\ CurrentSchema # None
               /\ r.validated /\ r.status = "ok"
               /\ strict_schema \/ LoadedSchema(r.handler) = CurrentSchema
               => Conforms(kwargs.Resource[1], CurrentSchema[1])

\* the part of C30 about the document the handler holds: at most as many
\* writes as the refresh hit count are validated while the handler holds
\* another document than the control table, and a request with the strict
\* validation flag reloads the document from the control table
C30_DocumentStaleness ==
    /\ schema_state.stale_writes <= schema_state._schema_validation_refresh_hitcount
    /\ \A kwargs \in SchemaRequests, d \in Dates :
           LET r == HandlerUpdate(kwargs, TRUE, d)
           IN  /\ r.validated /\ r.reloaded
               /\ r.handler._schema = get_control_item(control_schema)
               /\ LoadedSchema(r.handler) = CurrentSchema

\* a write was validated while the handler held a document that the control
\* table no longer holds
C30_StaleWrite ==
    /\ schema_state.stale_writes > 0
    /\ schema_state._schema_loaded
    /\ CurrentSchema # None

----------------------------------------------------------------------------
\* the audit attributes every decorated write sets
AuditNames == {LAST_UPDATE_DATE, LAST_UPDATED_BY, LAST_UPDATE_ACTION}

\* update_metadata of the Meta record of a namespace in the current state
MetaUpdate(api_name, updates, date_now) ==
    update_metadata(api_metadata[api_name], api_name, updates, date_now)

\* an update that is null, an empty list or an empty document
EmptyUpdate(updates) == updates.given # "doc" \/ DOMAIN updates.doc = {}

\* the update wrote nothing and returned null
NoWrite(r, cur) == r.status = "ok" /\ r.response = None /\ r.item = cur

\* the update set the supplied attributes and the audit attributes and left
\* every other attribute of the record as it was
MergedWrite(r, cur, api_name, doc, date_now) ==
    /\ r.status = "ok"
    /\ r.response # None
    /\ DOMAIN r.item = DOMAIN cur \cup DOMAIN doc \cup AuditNames \cup {CONTROL_HASH, CONTROL_SORT}
    /\ \A k \in DOMAIN doc : r.item[k] = doc[k]
    /\ r.item[LAST_UPDATE_DATE] = date_now
    /\ r.item[LAST_UPDATED_BY] = SYSTEM
    /\ r.item[LAST_UPDATE_ACTION] = ACTION_UPDATE
    /\ r.item[CONTROL_HASH] = api_name
    /\ \A k \in DOMAIN cur \ (DOMAIN doc \cup AuditNames) : r.item[k] = cur[k]

\* C31: update_metadata with an update that is null, an empty list or an
\* empty document returns null and writes nothing; with a document that has
\* attributes it sets exactly these and the audit attributes and leaves every
\* other attribute of the Meta record of the namespace unchanged.
C31_UpdateMetadata ==
    \A n \in ApiNames, updates \in MetaUpdates, d \in Dates :
        LET r == MetaUpdate(n, updates, d)
        IN  IF EmptyUpdate(updates)
            THEN NoWrite(r, api_metadata[n])
            ELSE MergedWrite(r, api_metadata[n], n, updates.doc, d)

\* the same for an update that is null, an empty list or a document that has
\* attributes; an empty document raises DetailedException and writes nothing
C31_UpdateMetadataNotEmptyDocument ==
    \A n \in ApiNames, updates \in MetaUpdates, d \in Dates :
        LET r == MetaUpdate(n, updates, d)
        IN  IF updates.given # "doc"
            THEN NoWrite(r, api_metadata[n])
            ELSE IF DOMAIN updates.doc = {}
            THEN r.status = "DetailedException" /\ r.item = api_metadata[n]
            ELSE MergedWrite(r, api_metadata[n], n, updates.doc, d)

\* a Meta record that holds an attribute an update does not name
C31_MergeKeeps ==
    \E n \in ApiNames :
        /\ Exists(api_metadata[n])
        /\ STATUS \in DOMAIN api_metadata[n]
        /\ api_metadata[n][STATUS] = STATUS_ACTIVE
        /\ DELETE_MODE \in DOMAIN api_metadata[n]
        /\ api_metadata[n][DELETE_MODE] = DELETE_MODE_TOMBSTONE

----------------------------------------------------------------------------
(* BuilderSpec: one DynamoUpdateExpressionHandler built by calls of         *)
(* add_expression_item, and the handler that __init__ parses from its       *)
(* rendered expression                                                      *)

MaxClauses == 3

KindOrder == <<SET, REMOVE, ADD>>

\* attribute names without and with the text of a keyword in them
PlainNames == {<<"a">>, <<"b">>}
KeywordNames == {<<"AS", SET>>, <<ADD, "RESS">>}

\* the clauses a caller contributes: an assignment, a path, an increment
ClausesOf(names) ==
    {Assign(NameRef(n), ValueRef(n)) : n \in names} \cup {NameRef(n) : n \in names}

BuilderClauses ==
    ClausesOf(PlainNames \cup KeywordNames) \cup {NameRef(ITEM_VERSION) \o <<SP>> \o INCR_V}

NoClauses == [k \in Keywords |-> <<>>]

BuilderInit ==
    /\ builder = [tokens |-> NoTokens, contributed |-> NoClauses, parsed |-> None]
    /\ StoreIdle /\ ReadIdle /\ CacheIdle /\ SchemaIdle /\ RaceIdle

Contributions(b) ==
    Len(b.contributed[SET]) + Len(b.contributed[REMOVE]) + Len(b.contributed[ADD])

\* add_expression_item(type, expression)
AddItem(type, expression) ==
    /\ Contributions(builder) < MaxClauses
    /\ builder' = [tokens |-> add_expression_item(builder.tokens, type, expression),
                   contributed |-> [builder.contributed EXCEPT ![type] = Append(@, expression)],
                   parsed |-> None]
    /\ UNCHANGED <<store_vars, read_vars, cache_vars, schema_vars, race_vars>>

\* DynamoUpdateExpressionHandler(get_expression()): a second handler is
\* constructed from the rendered expression
ParseRendered ==
    /\ builder.parsed = None
    /\ builder' = [builder EXCEPT !.parsed =
                       Some(DynamoUpdateExpressionHandler(get_expression(builder.tokens)))]
    /\ UNCHANGED <<store_vars, read_vars, cache_vars, schema_vars, race_vars>>

BuilderNext ==
    \/ \E type \in Keywords, expression \in BuilderClauses : AddItem(type, expression)
    \/ ParseRendered

BuilderSpec == BuilderInit /\ [][BuilderNext]_vars

----------------------------------------------------------------------------
\* the kinds of KindOrder from the i-th on that have a contributed clause,
\* each rendered as the kind and its clauses separated by ', '
RECURSIVE RenderedKinds(_, _)
RenderedKinds(contributed, i) ==
    IF i > Len(KindOrder) THEN <<>>
    ELSE IF contributed[KindOrder[i]] = <<>> THEN RenderedKinds(contributed, i + 1)
    ELSE << <<KindOrder[i], SP>> \o join(<<COMMA, SP>>, contributed[KindOrder[i]]) >>
         \o RenderedKinds(contributed, i + 1)

\* C32: after any sequence of add_expression_item calls get_expression
\* renders the kinds in the order SET, REMOVE, ADD, leaves out a kind without
\* a clause, and lists the clauses of a kind once each, in the order they
\* were contributed, separated by ', '.
C32_RenderOrder ==
    get_expression(builder.tokens) = join(<<SP>>, RenderedKinds(builder.contributed, 1))

\* two clauses of one kind and a clause of another kind that was contributed
\* first and is rendered after, with a kind left out
C32_Witness ==
    /\ Len(builder.contributed[SET]) = 2
    /\ builder.contributed[SET][1] # builder.contributed[SET][2]
    /\ Len(builder.contributed[ADD]) = 1
    /\ builder.contributed[REMOVE] = <<>>
    /\ builder.tokens[ADD] = NameRef(ITEM_VERSION) \o <<SP>> \o INCR_V
    /\ DOMAIN builder.tokens = {SET, ADD}

----------------------------------------------------------------------------
\* the clauses of the audit decoration
LastUpdates ==
    join(<<COMMA, SP>>, <<Assign(LUD_A, LUD_V), Assign(LUB_A, LUB_V), Assign(LUA_A, LUA_V)>>)
Increment == NameRef(ITEM_VERSION) \o <<SP>> \o INCR_V

\* the kinds that have a clause, each with the text of its clauses
KindTexts(contributed) ==
    [k \in {x \in Keywords : contributed[x] # <<>>} |-> join(<<COMMA, SP>>, contributed[k])]

\* decorate_update_request of the expression the builder renders
Decorated(b) ==
    decorate_update_request([ue |-> get_expression(b.tokens), ce |-> NoCondition,
                             ean |-> NoMap, eav |-> NoMap], 1, ACTION_UPDATE, TRUE, 1)

\* the parsed handler holds the clauses of every kind as contributed, and the
\* decorated expression holds them followed by the clauses of the decoration
RoundTrip(b) ==
    /\ b.parsed # None => b.parsed[1] = KindTexts(b.contributed)
    /\ Decorated(b).ue =
           join(<<SP>>, RenderedKinds([b.contributed EXCEPT ![SET] = Append(@, LastUpdates),
                                                            ![ADD] = Append(@, Increment)], 1))

\* no contributed clause holds the text of a keyword
KeywordFree(b) ==
    \A k \in Keywords : \A i \in 1..Len(b.contributed[k]) :
        \A j \in 1..Len(b.contributed[k][i]) : b.contributed[k][i][j] \notin Keywords

\* C33: the handler parsed from a rendered expression holds the same clauses
\* per kind as the builder that rendered it, whatever the clauses contain,
\* attribute names with the text SET, REMOVE or ADD included; so the audit
\* decoration of an expression keeps every clause of it unaltered.
C33_ParseRenderRoundTrip == RoundTrip(builder)

\* the same for clauses in which the text of no keyword occurs
C33_RoundTripKeywordFree == KeywordFree(builder) => RoundTrip(builder)

\* a parsed handler of an expression with clauses of two kinds
C33_Parsed ==
    /\ builder.parsed # None
    /\ KeywordFree(builder)
    /\ Len(builder.contributed[SET]) = 2
    /\ Len(builder.contributed[REMOVE]) = 1

----------------------------------------------------------------------------
\* the item of key id was written, deleted and then restored, and nothing
\* else since
Restored(id) ==
    /\ Visible(Stored(id))
    /\ DOMAIN Stored(id) \cap ResourceNames # {}
    /\ Stored(id)[LAST_UPDATE_ACTION] = ACTION_RESTORE

\* C34: after a delete followed by a successful restore of an item, a further
\* delete of the whole item returns true and get and check no longer return
\* the item, under the soft and under the tombstone policy.
C34_DeleteAfterRestore ==
    \A id \in Ids, kwargs \in WholeDeletes, d \in Dates :
        Restored(id)
        => LET r == DeleteResult(id, kwargs, d)
           IN  /\ r.status = "ok" /\ r.ret
               /\ check(r.rt, id).status = "ResourceNotFoundException"
               /\ get(r.rt, r.mt, id, FALSE).status = "ResourceNotFoundException"

\* what the second delete does: under the soft policy it returns false,
\* under the tombstone policy it raises DetailedException, and under both
\* the item stays as it is, returned by get and check
C34_SecondDeleteIgnored ==
    \A id \in Ids, kwargs \in WholeDeletes, d \in Dates :
        Restored(id)
        => LET r == DeleteResult(id, kwargs, d)
           IN  /\ IF set_delete_mode(namespace, kwargs) = DELETE_MODE_SOFT
                  THEN r.status = "ok" /\ ~r.ret
                  ELSE r.status = "DetailedException"
               /\ r.rt[id] = Stored(id)
               /\ check(r.rt, id).status = "ok"

\* a restored item under each delete policy
C34_RestoredSoft == \E id \in Ids : Restored(id) /\ namespace.delete_mode = DELETE_MODE_SOFT
C34_RestoredTombstone ==
    \E id \in Ids : Restored(id) /\ namespace.delete_mode = DELETE_MODE_TOMBSTONE

----------------------------------------------------------------------------
\* the update requests that carry a Resource and a Metadata document
BothParts == {kwargs \in UpdateRequests : kwargs.Resource # None /\ kwargs.Metadata # None}

\* the Metadata part of the request alone
MetadataPart(kwargs) == [kwargs EXCEPT !.Resource = None, !.ItemVersion = None, !.Constraints = None]

\* C35: an update request with a Resource and a Metadata document whose
\* Resource part is rejected (ItemMasterID among its attributes, a schema
\* validation failure or a failed write condition) writes nothing: the
\* Metadata record is as it was before the request.
C35_RejectedWritesNothing ==
    \A id \in Ids, kwargs \in BothParts, d \in Dates :
        LET r == UpdateResult(id, kwargs, d)
            m == UpdateResult(id, MetadataPart(kwargs), d)
        IN  (m.status = "ok" /\ r.status # "ok")
            => r.rt = resource_table /\ r.mt = metadata_table

\* what the code does: the Metadata document of a request whose Resource part
\* is rejected is written as if it had been sent alone, and the Resource
\* table is left as it was
C35_MetadataWrittenFirst ==
    \A id \in Ids, kwargs \in BothParts, d \in Dates :
        LET r == UpdateResult(id, kwargs, d)
            m == UpdateResult(id, MetadataPart(kwargs), d)
        IN  (m.status = "ok" /\ r.status # "ok")
            => r.rt = resource_table /\ r.mt = m.mt /\ r.mt # metadata_table

\* a stored item and a request with both parts whose Resource part fails its
\* write condition
C35_ConditionFails ==
    \E id \in Ids, kwargs \in BothParts :
        /\ Visible(Stored(id))
        /\ ITEM_MASTER_ID \notin DOMAIN kwargs.Resource[1]
        /\ UpdateResult(id, kwargs, 1).status = "ConstraintViolationException"

----------------------------------------------------------------------------
(* RaceSpec: a tombstone delete and an item_master_delete taken in two      *)
(* steps, the read of the current item and the write to the store, with the *)
(* writes of other requests between the two                                 *)

RaceConfigs ==
    {cfg \in Configs : /\ ~cfg.strict_occv /\ cfg.allow_non_itemmaster_writes
                       /\ cfg.delete_mode = DELETE_MODE_TOMBSTONE
                       /\ ~cfg.allow_runtime_delete_mode_change}

\* the requests of the other callers: the update of a Resource document
RaceUpdates ==
    {kwargs \in UpdateRequests :
        /\ kwargs.Resource # None /\ kwargs.Metadata = None
        /\ kwargs.ItemVersion = None /\ kwargs.Constraints = None
        /\ ITEM_MASTER_ID \notin DOMAIN kwargs.Resource[1]}

\* the writes a behaviour of RaceSpec may make
MaxRaceWrites == 5

RaceInit ==
    /\ namespace \in RaceConfigs
    /\ resource_table = [id \in Ids |-> NoItem]
    /\ metadata_table = [k \in MetaKeys |-> NoItem]
    /\ inflight = NoInflight
    /\ ReadIdle /\ CacheIdle /\ SchemaIdle /\ BuilderIdle

\* delete under the tombstone policy, up to the read of delete_resource: the
\* Metadata record is deleted, the current item fetched and the statement
\* built from its attributes; ResourceNotFoundException when there is none
TombstoneRead(id) ==
    /\ inflight = NoInflight
    /\ Writes < MaxRaceWrites
    /\ metadata_table' = delete_metadata(metadata_table, id)
    /\ inflight' = IF Visible(resource_table[id])
                   THEN [pc |-> "tombstone", id |-> id, current |-> resource_table[id],
                         upd |-> DeleteExpression(TRUE, remove_tokens(
                                     _fetch_item(resource_table[id], FALSE)))]
                   ELSE NoInflight
    /\ UNCHANGED <<namespace, resource_table, read_vars, cache_vars, schema_vars, builder_vars>>

\* the write of the tombstone delete in flight on the item as it is stored
TombstoneWriteResult(date_now) ==
    _simple_update(resource_table[inflight.id], inflight.id, inflight.upd,
                   namespace.caller, ACTION_DELETE, date_now)

\* delete_resource, the _simple_update of the statement built at the read
TombstoneWrite(date_now) ==
    /\ inflight.pc = "tombstone"
    /\ resource_table' = [resource_table EXCEPT ![inflight.id] = TombstoneWriteResult(date_now).item]
    /\ inflight' = NoInflight
    /\ UNCHANGED <<namespace, metadata_table, read_vars, cache_vars, schema_vars, builder_vars>>

\* AwsDataAPI.item_master_delete up to the comparison of the stored master
\* with the asserted one; it goes on to the removal when they are equal
MasterDeleteRead(kwargs) ==
    /\ inflight = NoInflight
    /\ Writes < MaxRaceWrites
    /\ Visible(resource_table[kwargs.pk])
    /\ ITEM_MASTER_ID \in DOMAIN resource_table[kwargs.pk]
    /\ kwargs.ItemMasterID # None
    /\ resource_table[kwargs.pk][ITEM_MASTER_ID] = kwargs.ItemMasterID[1]
    /\ inflight' = [pc |-> "master_delete", id |-> kwargs.pk, current |-> resource_table[kwargs.pk],
                    asserted |-> kwargs.ItemMasterID[1]]
    /\ UNCHANGED <<store_vars, read_vars, cache_vars, schema_vars, builder_vars>>

\* the removal of the item_master_delete in flight on the item as it is stored
MasterDeleteWriteResult(date_now) ==
    remove_resource_attributes(resource_table[inflight.id], inflight.id, <<ITEM_MASTER_ID>>,
                               namespace.caller, date_now)

\* item_master_delete, the remove_resource_attributes of ItemMasterID
MasterDeleteWrite(date_now) ==
    /\ inflight.pc = "master_delete"
    /\ resource_table' = [resource_table EXCEPT ![inflight.id] = MasterDeleteWriteResult(date_now).item]
    /\ inflight' = NoInflight
    /\ UNCHANGED <<namespace, metadata_table, read_vars, cache_vars, schema_vars, builder_vars>>

\* update_item of another request, while an operation may be in flight
RaceUpdate(id, kwargs, date_now) ==
    /\ Writes < MaxRaceWrites
    /\ resource_table' = update_item(resource_table, metadata_table, id, namespace, kwargs, date_now).rt
    /\ metadata_table' = update_item(resource_table, metadata_table, id, namespace, kwargs, date_now).mt
    /\ UNCHANGED <<namespace, inflight, read_vars, cache_vars, schema_vars, builder_vars>>

\* item_master_update of another request, while an operation may be in flight
RaceMasterUpdate(kwargs, date_now) ==
    /\ Writes < MaxRaceWrites
    /\ resource_table' = item_master_update(resource_table, namespace.caller, kwargs, date_now).rt
    /\ UNCHANGED <<namespace, metadata_table, inflight, read_vars, cache_vars, schema_vars, builder_vars>>

RaceNext ==
    \/ \E id \in Ids, kwargs \in RaceUpdates, d \in Dates : RaceUpdate(id, kwargs, d)
    \/ \E kwargs \in MasterUpdateRequests, d \in Dates : RaceMasterUpdate(kwargs, d)
    \/ \E id \in Ids : TombstoneRead(id)
    \/ \E d \in Dates : TombstoneWrite(d)
    \/ \E kwargs \in MasterDeleteRequests : MasterDeleteRead(kwargs)
    \/ \E d \in Dates : MasterDeleteWrite(d)

RaceSpec == RaceInit /\ [][RaceNext]_vars

----------------------------------------------------------------------------
\* the item the operation in flight read is the item stored now
Unraced == resource_table[inflight.id] = inflight.current

\* the attributes a tombstoned record may hold: the primary key, the reserved
\* fields, and the attribute type that no tombstone removes
TombstoneKeeps == ReservedNames \cup {TYPE}

\* C36: in every interleaving of the read and the write of a tombstone delete
\* with the update of the same item, the write of the tombstone either takes
\* no effect or leaves a record with Tombstoned = true that holds no
\* attribute besides the primary key and the reserved fields.
C36_TombstoneRace ==
    inflight.pc = "tombstone"
    => \A d \in Dates :
           LET r == TombstoneWriteResult(d)
           IN  IF r.status = "ok" /\ r.ret
               THEN IsTombstoned(r.item) /\ DOMAIN r.item \subseteq TombstoneKeeps
               ELSE r.item = resource_table[inflight.id]

\* the same when no write came between the read and the write of the delete
C36_TombstoneUnraced ==
    (inflight.pc = "tombstone" /\ Unraced)
    => \A d \in Dates :
           LET r == TombstoneWriteResult(d)
           IN  /\ r.status = "ok" /\ r.ret
               /\ IsTombstoned(r.item) /\ DOMAIN r.item \subseteq TombstoneKeeps

\* a tombstone delete in flight on an item that was updated after it was read
C36_Raced ==
    /\ inflight.pc = "tombstone"
    /\ ~Unraced
    /\ Visible(resource_table[inflight.id])

----------------------------------------------------------------------------
\* C37: in every interleaving of item_master_delete(id, assertedMaster) with
\* item_master_update of the same item, the removal keeps the master link
\* when the ItemMasterID stored at the moment of the removal is not the
\* asserted one.
C37_MasterDeleteRace ==
    inflight.pc = "master_delete"
    => \A d \in Dates :
           LET cur == resource_table[inflight.id]
               r == MasterDeleteWriteResult(d)
           IN  (ITEM_MASTER_ID \in DOMAIN cur /\ cur[ITEM_MASTER_ID] # inflight.asserted)
               => /\ ITEM_MASTER_ID \in DOMAIN r.item
                  /\ r.item[ITEM_MASTER_ID] = cur[ITEM_MASTER_ID]

\* when no write came between the comparison and the removal, the removal
\* takes the asserted link and nothing else of the item
C37_MasterDeleteUnraced ==
    (inflight.pc = "master_delete" /\ Unraced)
    => \A d \in Dates :
           LET r == MasterDeleteWriteResult(d)
           IN  /\ r.status = "ok" /\ r.ret
               /\ ITEM_MASTER_ID \notin DOMAIN r.item
               /\ Without(r.item, ReservedNames) = Without(inflight.current, ReservedNames)

\* an item_master_delete in flight on an item whose master was changed after
\* the comparison
C37_Raced ==
    /\ inflight.pc = "master_delete"
    /\ ITEM_MASTER_ID \in DOMAIN resource_table[inflight.id]
    /\ resource_table[inflight.id][ITEM_MASTER_ID] # inflight.asserted

----------------------------------------------------------------------------
(* CacheRaceSpec: DataApiCache.get of a namespace that is not cached, taken *)
(* in two steps, the read of the metadata and the add to the cache, and the *)
(* PUT of the metadata route, taken in two steps, the write to the store    *)
(* and the remove from the cache                                            *)

\* no get is hydrating and no metadata route is between its write and remove
NoFlights == [pc |-> "cache", get |-> None, route |-> None]

CacheRaceInit ==
    /\ api_metadata = [n \in ApiNames |-> NoItem]
    /\ _api_cache = NoMap
    /\ constructed = 0
    /\ inflight = NoFlights
    /\ StoreIdle /\ ReadIdle /\ SchemaIdle /\ BuilderIdle

\* the metadata as load_api receives it from DataApiCache.get
LoadArgs(api_name, meta) ==
    (<<"ApiName">> :> api_name) @@ (<<"Region">> :> _region) @@ (APP :> "app") @@ meta

\* DataApiCache.get of a namespace not cached and not being created, up to
\* the read of its metadata
GetRead(api_name) ==
    /\ inflight.get = None
    /\ constructed < MaxFacades
    /\ api_name \notin DOMAIN _api_cache
    /\ Exists(get_api_metadata(api_metadata, api_name))
    /\ get_api_metadata(api_metadata, api_name)[STATUS] # STATUS_CREATING
    /\ inflight' = [inflight EXCEPT !.get = Some([name |-> api_name,
                                                  meta |-> get_api_metadata(api_metadata, api_name)])]
    /\ UNCHANGED <<cache_vars, store_vars, read_vars, schema_vars, builder_vars>>

\* DataApiCache.get from load_api on: the facade is constructed from the
\* metadata read before and added to the cache
GetAdd ==
    /\ inflight.get # None
    /\ _api_cache' = cache_add(_api_cache, inflight.get[1].name,
                               load_api(LoadArgs(inflight.get[1].name, inflight.get[1].meta),
                                        constructed + 1))
    /\ constructed' = constructed + 1
    /\ inflight' = [inflight EXCEPT !.get = None]
    /\ UNCHANGED <<api_metadata, store_vars, read_vars, schema_vars, builder_vars>>

\* PUT on the metadata route up to the return of update_metadata; the route
\* goes on to the remove when something was written
RouteWrite(api_name, updates, date_now) ==
    /\ inflight.route = None
    /\ Exists(api_metadata[api_name])
    /\ api_metadata' = [api_metadata EXCEPT
                           ![api_name] = update_metadata(api_metadata[api_name], api_name,
                                                         updates, date_now).item]
    /\ inflight' = [inflight EXCEPT
                       !.route = IF update_metadata(api_metadata[api_name], api_name,
                                                    updates, date_now).response # None
                                 THEN Some(api_name) ELSE None]
    /\ UNCHANGED <<_api_cache, constructed, store_vars, read_vars, schema_vars, builder_vars>>

\* PUT on the metadata route: api_cache.remove
RouteRemove ==
    /\ inflight.route # None
    /\ _api_cache' = cache_remove(_api_cache, inflight.route[1])
    /\ inflight' = [inflight EXCEPT !.route = None]
    /\ UNCHANGED <<api_metadata, constructed, store_vars, read_vars, schema_vars, builder_vars>>

CacheRaceNext ==
    \/ \E n \in ApiNames, doc \in ProvisionDocs, d \in Dates : ProvisionCreate(n, doc, d)
    \/ \E n \in ApiNames, d \in Dates : ProvisionActivate(n, d)
    \/ \E n \in ApiNames : GetRead(n)
    \/ GetAdd
    \/ \E n \in ApiNames, updates \in MetaUpdates, d \in Dates : RouteWrite(n, updates, d)
    \/ RouteRemove

CacheRaceSpec == CacheRaceInit /\ [][CacheRaceNext]_vars

\* the get and the metadata route have both finished
BothFinished == inflight.get = None /\ inflight.route = None

C38_ReadAfterWrite ==
    (inflight.get # None /\ inflight.get[1].meta = api_metadata[inflight.get[1].name])
    => load_api(LoadArgs(inflight.get[1].name, inflight.get[1].meta), constructed + 1).config
       = CurrentConfig(inflight.get[1].name)

\* a get holds metadata that the route has replaced and evicted since
C38_Raced ==
    /\ inflight.get # None /\ inflight.route = None
    /\ inflight.get[1].meta # api_metadata[inflight.get[1].name]

----------------------------------------------------------------------------
\* the update of the item of key id after the delete that left rt and mt
UpdateAfter(r, id, kwargs, date_now) == update_item(r.rt, r.mt, id, namespace, kwargs, date_now)

\* the updates of a Resource document
ResourceUpdates == {kwargs \in UpdateRequests : kwargs.Resource # None}

\* C39: delete(id) for an id that has no stored record creates no record
\* under either delete policy: afterwards the store holds no item with key
\* id, and a later update that creates id yields a visible item that is not
\* deleted.
C39_DeleteMissingCreatesNothing ==
    \A id \in Ids, kwargs \in WholeDeletes, d \in Dates :
        ~Exists(Stored(id))
        => LET r == DeleteResult(id, kwargs, d)
           IN  /\ ~Exists(r.rt[id])
               /\ \A later \in ResourceUpdates :
                      LET u == UpdateAfter(r, id, later, d)
                      IN  u.status = "ok" => Visible(u.rt[id]) /\ DELETED \notin DOMAIN u.rt[id]

\* what delete does for an id without a record: under the tombstone policy
\* it raises ResourceNotFoundException and stores nothing; under the soft
\* policy it returns true and stores a record of the key with deleted = 1,
\* ItemVersion = 1 and the reserved fields only, which check does not
\* return; a later update that succeeds yields a visible item under both
C39_SoftDeleteUpserts ==
    \A id \in Ids, kwargs \in WholeDeletes, d \in Dates :
        ~Exists(Stored(id))
        => LET r == DeleteResult(id, kwargs, d)
           IN  /\ IF set_delete_mode(namespace, kwargs) = DELETE_MODE_TOMBSTONE
                  THEN r.status = "ResourceNotFoundException" /\ r.rt = resource_table
                  ELSE /\ r.status = "ok" /\ r.ret
                       /\ Exists(r.rt[id]) /\ r.rt[id][DELETED] = 1
                       /\ r.rt[id][ITEM_VERSION] = 1
                       /\ DOMAIN r.rt[id] \subseteq ReservedNames
                       /\ check(r.rt, id).status = "ResourceNotFoundException"
               /\ \A later \in ResourceUpdates :
                      LET u == UpdateAfter(r, id, later, d)
                      IN  u.status = "ok" => Visible(u.rt[id]) /\ DELETED \notin DOMAIN u.rt[id]

\* a record stored by the delete of a key that had none: deleted, at its
\* first version and without a Resource attribute
C39_DeletedNeverWritten ==
    \E id \in Ids :
        /\ Exists(Stored(id)) /\ ~Visible(Stored(id))
        /\ Stored(id)[ITEM_VERSION] = 1
        /\ DOMAIN Stored(id) \subseteq ReservedNames

----------------------------------------------------------------------------
\* the validation of the Resource item of a request without the strict flag
\* by the handler h
RequestValidation(h, item) == validate_resource(h, control_schema, <<"1">>, item, FALSE)

\* the handler after k requests without the strict flag for the Resource item
RECURSIVE AfterRequests(_, _, _)
AfterRequests(h, item, k) ==
    IF k = 0 THEN h ELSE AfterRequests(RequestValidation(h, item).handler, item, k - 1)

\* C40: schema staleness is bounded in requests: when the control table
\* holds a Resource schema, a handler that has received as many update
\* requests as its refresh hit count, accepted or rejected, validates the
\* next request with the schema of the control table.
C40_RequestStaleness ==
    \A item \in ValidationItems :
        CurrentSchema # None
        => LET h == AfterRequests(schema_state, item,
                                  schema_state._schema_validation_refresh_hitcount)
           IN  (RequestValidation(h, item).status = "ok") = Conforms(item, CurrentSchema[1])

\* what the handler does reach within that many requests: it holds the
\* document of the control table, and none of the requests was rejected
C40_DocumentReloaded ==
    \A item \in ValidationItems :
        CurrentSchema # None
        => LET h == AfterRequests(schema_state, item,
                                  schema_state._schema_validation_refresh_hitcount)
           IN  /\ LoadedSchema(h) = CurrentSchema
               /\ h._schema_dependent_hit_count
                  = schema_state._schema_dependent_hit_count
                    + schema_state._schema_validation_refresh_hitcount

\* the handler with the validator of the schema document given in place of
\* its own
WithValidator(h, schema) == [h EXCEPT !._schema_validator = compile(schema)]

\* a request that the validator rejects leaves the count of validated
\* requests as it was, and when no reload was due the handler with it, so
\* that the same request is rejected again
C40_RejectionKeepsCount ==
    \A schema \in Schemas, item \in ValidationItems :
        LET h == WithValidator(schema_state, schema)
            v == RequestValidation(h, item)
        IN  v.status = "InvalidArgumentsException"
            => /\ v.handler._schema_dependent_hit_count = h._schema_dependent_hit_count
               /\ ~v.reloaded /\ v.handler = h
               /\ RequestValidation(v.handler, item) = v

\* the handler holds an older document than the control table and no reload
\* is due at the next request
C40_StaleHandler ==
    /\ CurrentSchema # None
    /\ schema_state._schema_loaded
    /\ LoadedSchema(schema_state) # CurrentSchema
    /\ schema_state._schema_dependent_hit_count % schema_state._schema_validation_refresh_hitcount # 0

\* a handler that would reject a request with the validator of a schema
\* document while no reload is due
C40_Rejecting ==
    \E schema \in Schemas, item \in ValidationItems :
        RequestValidation(WithValidator(schema_state, schema), item).status
        = "InvalidArgumentsException"

====
